---- MODULE Spec2Model ----
(***************************************************************************)
(* Organization-tag directory of KnowHub-Go: the tag store (GORM           *)
(* repository), the tag directory service, the user record that holds the  *)
(* seed tags, and the effective-tag resolver.                              *)
(*                                                                         *)
(* Go strings are sequences of symbols.  A symbol is a one-element TLA+    *)
(* string; " " is the whitespace symbol and "," the separator, every other *)
(* symbol is an opaque run of non-space, non-comma characters.  A *string  *)
(* is None (nil) or Some(s).  The store-maintained timestamps (created_at, *)
(* updated_at) are not modelled.                                           *)
(***************************************************************************)
EXTENDS Integers, Sequences, FiniteSets, TLC

VARIABLES store, users, last, prev, reqs, rpc, rUser, rSeeds, rAll, rQueue, rVisited, rResult, rErr, rReads, rTrace,
          now, rdb, revoked, served

vars == <<store, users, last, prev, reqs, rpc, rUser, rSeeds, rAll, rQueue, rVisited, rResult, rErr, rReads, rTrace,
          now, rdb, revoked, served>>

authVars == <<now, rdb, revoked, served>>

resolverVars == <<rpc, rUser, rSeeds, rAll, rQueue, rVisited, rResult, rErr, rReads, rTrace>>

----------------------------------------------------------------------------
(* Bounds *)

\* raw inputs carry at most MaxPad whitespace symbols on each side
MaxPad == 1

\* AssignOrgTagsToUser is called with lists of at most MaxAssign ids
MaxAssign == 2

\* a stored OrgTags string has at most MaxRaw symbols
MaxRaw == 5

\* the clock stops at MaxTime
MaxTime == 4

----------------------------------------------------------------------------
(* Strings *)

Space == " "

Comma == ","

None == <<>>

Some(s) == <<s>>

RECURSIVE TrimLeft(_)
TrimLeft(s) == IF s # <<>> /\ Head(s) = Space THEN TrimLeft(Tail(s)) ELSE s

RECURSIVE TrimRight(_)
TrimRight(s) == IF s # <<>> /\ s[Len(s)] = Space THEN TrimRight(SubSeq(s, 1, Len(s) - 1)) ELSE s

\* strings.TrimSpace
TrimSpace(s) == TrimRight(TrimLeft(s))

\* the position of a symbol in the collation order of the store
SymRank(ch) == CASE ch = Space -> 0
                 [] ch = Comma -> 1
                 [] ch = "a" -> 2
                 [] ch = "b" -> 3
                 [] ch = "c" -> 4
                 [] OTHER -> 5

\* s sorts strictly before t (ORDER BY tag_id ASC)
RECURSIVE StrLess(_, _)
StrLess(s, t) == IF t = <<>> THEN FALSE
                 ELSE IF s = <<>> THEN TRUE
                 ELSE IF Head(s) = Head(t) THEN StrLess(Tail(s), Tail(t))
                 ELSE SymRank(Head(s)) < SymRank(Head(t))

----------------------------------------------------------------------------
(* Errors *)

NoErr == "nil"

ErrRecordNotFound == "gorm.ErrRecordNotFound"

ErrDuplicatedKey == "mysql: duplicate entry"

\* an error of the database that the repository does not know, such as a
\* lost connection
ErrBadConn == "driver: bad connection"

\* the error of a transaction the database ends to break a deadlock
ErrDeadlock == "mysql: deadlock found when trying to get lock"

ErrTagIDRequired == "tag id is required"

RepoErrOrgTagHasChildren == "repository.ErrOrgTagHasChildren"

ErrInvalidInput == "ErrInvalidInput"

ErrOrgTagAlreadyExists == "ErrOrgTagAlreadyExists"

ErrOrgTagNotFound == "ErrOrgTagNotFound"

ErrOrgTagHasChildren == "ErrOrgTagHasChildren"

ErrOrgTagNotOwned == "ErrOrgTagNotOwned"

ErrUserNotFound == "ErrUserNotFound"

ErrUserAlreadyExists == "ErrUserAlreadyExists"

ErrInvalidCredentials == "ErrInvalidCredentials"

ErrInternal == "ErrInternal"

----------------------------------------------------------------------------
(* Tag store: organizationTagRepository over the organization_tags table. *)
(* db is a function from tag ids to OrganizationTag records.               *)

OrganizationTag(id, name, description, parent, createdBy, updatedBy) ==
    [TagID |-> id, Name |-> name, Description |-> description,
     ParentTag |-> parent, CreatedBy |-> createdBy, UpdatedBy |-> updatedBy]

\* rows matching WHERE parent_tag = tagID
ChildrenOf(db, tagID) == {c \in DOMAIN db : db[c].ParentTag = Some(tagID)}

RepoFindByID(db, id) ==
    IF id = <<>> THEN [err |-> ErrTagIDRequired, tag |-> None]
    ELSE IF id \in DOMAIN db THEN [err |-> NoErr, tag |-> Some(db[id])]
    ELSE [err |-> ErrRecordNotFound, tag |-> None]

RepoCreate(db, tag) ==
    IF tag.TagID = <<>> THEN [err |-> ErrTagIDRequired, db |-> db]
    ELSE IF tag.TagID \in DOMAIN db THEN [err |-> ErrDuplicatedKey, db |-> db]
    ELSE [err |-> NoErr,
          db |-> [x \in DOMAIN db \cup {tag.TagID} |-> IF x = tag.TagID THEN tag ELSE db[x]]]

\* RepoUpdate without the WHERE tag_id = ? of its statement
RepoUpdate_AllRows(db, tag) ==
    IF tag.TagID = <<>> THEN [err |-> ErrTagIDRequired, db |-> db]
    ELSE IF tag.TagID \notin DOMAIN db THEN [err |-> ErrRecordNotFound, db |-> db]
    ELSE [err |-> NoErr,
          db |-> [x \in DOMAIN db |->
                     [db[x] EXCEPT !.Name = tag.Name, !.Description = tag.Description,
                                   !.ParentTag = tag.ParentTag, !.UpdatedBy = tag.UpdatedBy]]]

RepoUpdate(db, tag) ==
    IF tag.TagID = <<>> THEN [err |-> ErrTagIDRequired, db |-> db]
    ELSE IF tag.TagID \notin DOMAIN db THEN [err |-> ErrRecordNotFound, db |-> db]
    ELSE [err |-> NoErr,
          db |-> [db EXCEPT ![tag.TagID] =
                     [@ EXCEPT !.Name = tag.Name, !.Description = tag.Description,
                               !.ParentTag = tag.ParentTag, !.UpdatedBy = tag.UpdatedBy]]]

\* DeleteRow without the WHERE of its statement
DeleteRow_AllRows(db, tagID) == <<>>

\* DELETE FROM organization_tags WHERE tag_id = tagID
DeleteRow(db, tagID) == [x \in DOMAIN db \ {tagID} |-> db[x]]

\* RepoDelete without the child count
RepoDelete_NoChildCheck(db, tagID) ==
    IF tagID = <<>> THEN [err |-> ErrTagIDRequired, db |-> db]
    ELSE IF tagID \notin DOMAIN db THEN [err |-> ErrRecordNotFound, db |-> db]
    ELSE [err |-> NoErr, db |-> DeleteRow(db, tagID)]

RepoDelete(db, tagID) ==
    IF tagID = <<>> THEN [err |-> ErrTagIDRequired, db |-> db]
    ELSE IF tagID \notin DOMAIN db THEN [err |-> ErrRecordNotFound, db |-> db]
    ELSE IF Cardinality(ChildrenOf(db, tagID)) > 0 THEN [err |-> RepoErrOrgTagHasChildren, db |-> db]
    ELSE [err |-> NoErr, db |-> DeleteRow(db, tagID)]

\* UPDATE organization_tags SET parent_tag = newParent WHERE parent_tag = tagID
\* ReparentRows that leaves the children where they are
ReparentRows_Keep(db, tagID, newParent) == db

ReparentRows(db, tagID, newParent) ==
    [x \in DOMAIN db |-> IF db[x].ParentTag = Some(tagID)
                         THEN [db[x] EXCEPT !.ParentTag = newParent]
                         ELSE db[x]]

\* RepoDeleteAndReparentChildren re-pointing the children to NULL
RepoDeleteAndReparentChildren_ToRoot(db, tagID) ==
    IF tagID = <<>> THEN [err |-> ErrTagIDRequired, db |-> db]
    ELSE IF tagID \notin DOMAIN db THEN [err |-> ErrRecordNotFound, db |-> db]
    ELSE [err |-> NoErr, db |-> DeleteRow(ReparentRows(db, tagID, None), tagID)]

RepoDeleteAndReparentChildren(db, tagID) ==
    IF tagID = <<>> THEN [err |-> ErrTagIDRequired, db |-> db]
    ELSE IF tagID \notin DOMAIN db THEN [err |-> ErrRecordNotFound, db |-> db]
    ELSE [err |-> NoErr, db |-> DeleteRow(ReparentRows(db, tagID, db[tagID].ParentTag), tagID)]

\* the ids of S in ascending order
RECURSIVE SortIDs(_)
SortIDs(S) == IF S = {} THEN <<>>
              ELSE LET m == CHOOSE x \in S : \A y \in S \ {x} : StrLess(x, y)
                   IN <<m>> \o SortIDs(S \ {m})

\* SELECT * FROM organization_tags ORDER BY tag_id ASC
RepoFindAll(db) == LET ids == SortIDs(DOMAIN db) IN [i \in 1..Len(ids) |-> db[ids[i]]]

----------------------------------------------------------------------------
(* Tag directory service: orgTagService *)

\* NormalizeOptionalTagID returning the pointer it was given
NormalizeOptionalTagID_NoTrim(raw) == raw

NormalizeOptionalTagID(raw) ==
    IF raw = None THEN None
    ELSE LET trimmed == TrimSpace(raw[1])
         IN IF trimmed = <<>> THEN None ELSE Some(trimmed)

\* actor = strings.TrimSpace(actor); if actor == "" { actor = "system" }
DefaultActor(actor) == IF TrimSpace(actor) = <<>> THEN <<"system">> ELSE TrimSpace(actor)

\* the repository calls a request has made, in order
ParentRead(normalizedParent) == IF normalizedParent # None THEN <<"FindByID">> ELSE <<>>

\* SvcCreate looking up the parent before the tag itself
SvcCreate_ParentFirst(db, rawID, rawName, description, parentTag, actor) ==
    LET tagID == TrimSpace(rawID)
        name == TrimSpace(rawName)
        normalizedParent == NormalizeOptionalTagID(parentTag)
        tag == OrganizationTag(tagID, name, description, normalizedParent,
                               DefaultActor(actor), DefaultActor(actor))
        reads == <<"FindByID">> \o ParentRead(normalizedParent)
    IN IF tagID = <<>> \/ name = <<>>
            THEN [err |-> ErrInvalidInput, db |-> db, tag |-> None, calls |-> <<>>]
       ELSE IF normalizedParent # None /\ normalizedParent[1] = tagID
            THEN [err |-> ErrInvalidInput, db |-> db, tag |-> None, calls |-> <<>>]
       ELSE IF normalizedParent # None /\ RepoFindByID(db, normalizedParent[1]).err = ErrRecordNotFound
            THEN [err |-> ErrOrgTagNotFound, db |-> db, tag |-> None, calls |-> reads]
       ELSE IF normalizedParent # None /\ RepoFindByID(db, normalizedParent[1]).err # NoErr
            THEN [err |-> RepoFindByID(db, normalizedParent[1]).err, db |-> db, tag |-> None,
                  calls |-> reads]
       ELSE IF RepoFindByID(db, tagID).err = NoErr
            THEN [err |-> ErrOrgTagAlreadyExists, db |-> db, tag |-> None, calls |-> <<"FindByID">>]
       ELSE IF RepoFindByID(db, tagID).err # ErrRecordNotFound
            THEN [err |-> RepoFindByID(db, tagID).err, db |-> db, tag |-> None,
                  calls |-> <<"FindByID">>]
       ELSE IF RepoCreate(db, tag).err # NoErr
            THEN [err |-> RepoCreate(db, tag).err, db |-> db, tag |-> None,
                  calls |-> reads \o <<"Create">>]
       ELSE [err |-> NoErr, db |-> RepoCreate(db, tag).db, tag |-> Some(tag),
             calls |-> reads \o <<"Create">>]

\* SvcCreate without the look-up of the id before the insert
SvcCreate_NoExistsCheck(db, rawID, rawName, description, parentTag, actor) ==
    LET tagID == TrimSpace(rawID)
        name == TrimSpace(rawName)
        normalizedParent == NormalizeOptionalTagID(parentTag)
        tag == OrganizationTag(tagID, name, description, normalizedParent,
                               DefaultActor(actor), DefaultActor(actor))
        reads == ParentRead(normalizedParent)
    IN IF tagID = <<>> \/ name = <<>>
            THEN [err |-> ErrInvalidInput, db |-> db, tag |-> None, calls |-> <<>>]
       ELSE IF normalizedParent # None /\ normalizedParent[1] = tagID
            THEN [err |-> ErrInvalidInput, db |-> db, tag |-> None, calls |-> <<>>]
       ELSE IF normalizedParent # None /\ RepoFindByID(db, normalizedParent[1]).err = ErrRecordNotFound
            THEN [err |-> ErrOrgTagNotFound, db |-> db, tag |-> None, calls |-> reads]
       ELSE IF RepoCreate(db, tag).err # NoErr
            THEN [err |-> RepoCreate(db, tag).err, db |-> db, tag |-> None,
                  calls |-> reads \o <<"Create">>]
       ELSE [err |-> NoErr, db |-> RepoCreate(db, tag).db, tag |-> Some(tag),
             calls |-> reads \o <<"Create">>]

\* SvcCreate without the look-up of the parent
SvcCreate_NoParentCheck(db, rawID, rawName, description, parentTag, actor) ==
    LET tagID == TrimSpace(rawID)
        name == TrimSpace(rawName)
        normalizedParent == NormalizeOptionalTagID(parentTag)
        tag == OrganizationTag(tagID, name, description, normalizedParent,
                               DefaultActor(actor), DefaultActor(actor))
    IN IF tagID = <<>> \/ name = <<>>
            THEN [err |-> ErrInvalidInput, db |-> db, tag |-> None, calls |-> <<>>]
       ELSE IF normalizedParent # None /\ normalizedParent[1] = tagID
            THEN [err |-> ErrInvalidInput, db |-> db, tag |-> None, calls |-> <<>>]
       ELSE IF RepoFindByID(db, tagID).err = NoErr
            THEN [err |-> ErrOrgTagAlreadyExists, db |-> db, tag |-> None, calls |-> <<"FindByID">>]
       ELSE IF RepoFindByID(db, tagID).err # ErrRecordNotFound
            THEN [err |-> RepoFindByID(db, tagID).err, db |-> db, tag |-> None,
                  calls |-> <<"FindByID">>]
       ELSE IF RepoCreate(db, tag).err # NoErr
            THEN [err |-> RepoCreate(db, tag).err, db |-> db, tag |-> None,
                  calls |-> <<"FindByID", "Create">>]
       ELSE [err |-> NoErr, db |-> RepoCreate(db, tag).db, tag |-> Some(tag),
             calls |-> <<"FindByID", "Create">>]

\* the result carries the request's outcome: err and tag as returned, db the
\* store afterwards, calls the repository methods invoked, in order
SvcCreateOn(db, rawID, rawName, description, parentTag, actor, fault) ==
    LET tagID == TrimSpace(rawID)
        name == TrimSpace(rawName)
        normalizedParent == NormalizeOptionalTagID(parentTag)
        tag == OrganizationTag(tagID, name, description, normalizedParent,
                               DefaultActor(actor), DefaultActor(actor))
        reads == <<"FindByID">> \o ParentRead(normalizedParent)
        exists == IF fault = 1 THEN [err |-> ErrBadConn, tag |-> None]
                  ELSE RepoFindByID(db, tagID)
        parent == IF fault = 2 THEN [err |-> ErrBadConn, tag |-> None]
                  ELSE RepoFindByID(db, normalizedParent[1])
        created == IF fault = 3 THEN [err |-> ErrBadConn, db |-> db]
                   ELSE RepoCreate(db, tag)
    IN IF tagID = <<>> \/ name = <<>>
            THEN [err |-> ErrInvalidInput, db |-> db, tag |-> None, calls |-> <<>>]
       ELSE IF normalizedParent # None /\ normalizedParent[1] = tagID
            THEN [err |-> ErrInvalidInput, db |-> db, tag |-> None, calls |-> <<>>]
       ELSE IF exists.err = NoErr
            THEN [err |-> ErrOrgTagAlreadyExists, db |-> db, tag |-> None, calls |-> <<"FindByID">>]
       ELSE IF exists.err # ErrRecordNotFound
            THEN [err |-> exists.err, db |-> db, tag |-> None,
                  calls |-> <<"FindByID">>]
       ELSE IF normalizedParent # None /\ parent.err = ErrRecordNotFound
            THEN [err |-> ErrOrgTagNotFound, db |-> db, tag |-> None, calls |-> reads]
       ELSE IF normalizedParent # None /\ parent.err # NoErr
            THEN [err |-> parent.err, db |-> db, tag |-> None,
                  calls |-> reads]
       ELSE IF created.err # NoErr
            THEN [err |-> created.err, db |-> db, tag |-> None,
                  calls |-> reads \o <<"Create">>]
       ELSE [err |-> NoErr, db |-> created.db, tag |-> Some(tag),
             calls |-> reads \o <<"Create">>]

SvcCreate(db, rawID, rawName, description, parentTag, actor) ==
    SvcCreateOn(db, rawID, rawName, description, parentTag, actor, 0)

SvcFindByIDOn(db, rawID, fault) ==
    LET tagID == TrimSpace(rawID)
        r == IF fault = 1 THEN [err |-> ErrBadConn, tag |-> None]
             ELSE RepoFindByID(db, tagID)
    IN IF tagID = <<>> THEN [err |-> ErrInvalidInput, tag |-> None]
       ELSE IF r.err = ErrRecordNotFound THEN [err |-> ErrOrgTagNotFound, tag |-> None]
       ELSE IF r.err # NoErr THEN [err |-> r.err, tag |-> None]
       ELSE IF r.tag = None THEN [err |-> ErrOrgTagNotFound, tag |-> None]
       ELSE [err |-> NoErr, tag |-> r.tag]

SvcFindByID(db, rawID) == SvcFindByIDOn(db, rawID, 0)

\* SvcUpdate refusing a parent that is a child of the tag
SvcUpdate_RejectsChildAsParent(db, rawID, rawName, description, parentTag, actor) ==
    LET tagID == TrimSpace(rawID)
        name == TrimSpace(rawName)
        found == SvcFindByID(db, tagID)
        normalizedParent == NormalizeOptionalTagID(parentTag)
        tag == [found.tag[1] EXCEPT !.Name = name, !.Description = description,
                                    !.ParentTag = normalizedParent,
                                    !.UpdatedBy = DefaultActor(actor)]
        reads == <<"FindByID">> \o ParentRead(normalizedParent)
    IN IF tagID = <<>> \/ name = <<>>
            THEN [err |-> ErrInvalidInput, db |-> db, tag |-> None, calls |-> <<>>]
       ELSE IF found.err # NoErr
            THEN [err |-> found.err, db |-> db, tag |-> None, calls |-> <<"FindByID">>]
       ELSE IF normalizedParent # None /\ normalizedParent[1] = tagID
            THEN [err |-> ErrInvalidInput, db |-> db, tag |-> None, calls |-> <<"FindByID">>]
       ELSE IF normalizedParent # None /\ normalizedParent[1] \in ChildrenOf(db, tagID)
            THEN [err |-> ErrInvalidInput, db |-> db, tag |-> None, calls |-> reads]
       ELSE IF normalizedParent # None /\ RepoFindByID(db, normalizedParent[1]).err = ErrRecordNotFound
            THEN [err |-> ErrOrgTagNotFound, db |-> db, tag |-> None, calls |-> reads]
       ELSE IF normalizedParent # None /\ RepoFindByID(db, normalizedParent[1]).err # NoErr
            THEN [err |-> RepoFindByID(db, normalizedParent[1]).err, db |-> db, tag |-> None,
                  calls |-> reads]
       ELSE IF RepoUpdate(db, tag).err = ErrRecordNotFound
            THEN [err |-> ErrOrgTagNotFound, db |-> db, tag |-> None,
                  calls |-> reads \o <<"Update">>]
       ELSE IF RepoUpdate(db, tag).err # NoErr
            THEN [err |-> RepoUpdate(db, tag).err, db |-> db, tag |-> None,
                  calls |-> reads \o <<"Update">>]
       ELSE [err |-> NoErr, db |-> RepoUpdate(db, tag).db, tag |-> Some(tag),
             calls |-> reads \o <<"Update">>]

\* SvcUpdate without the look-up of the parent
SvcUpdate_NoParentCheck(db, rawID, rawName, description, parentTag, actor) ==
    LET tagID == TrimSpace(rawID)
        name == TrimSpace(rawName)
        found == SvcFindByID(db, tagID)
        normalizedParent == NormalizeOptionalTagID(parentTag)
        tag == [found.tag[1] EXCEPT !.Name = name, !.Description = description,
                                    !.ParentTag = normalizedParent,
                                    !.UpdatedBy = DefaultActor(actor)]
        reads == <<"FindByID">>
    IN IF tagID = <<>> \/ name = <<>>
            THEN [err |-> ErrInvalidInput, db |-> db, tag |-> None, calls |-> <<>>]
       ELSE IF found.err # NoErr
            THEN [err |-> found.err, db |-> db, tag |-> None, calls |-> <<"FindByID">>]
       ELSE IF normalizedParent # None /\ normalizedParent[1] = tagID
            THEN [err |-> ErrInvalidInput, db |-> db, tag |-> None, calls |-> <<"FindByID">>]
       ELSE IF RepoUpdate(db, tag).err = ErrRecordNotFound
            THEN [err |-> ErrOrgTagNotFound, db |-> db, tag |-> None,
                  calls |-> reads \o <<"Update">>]
       ELSE IF RepoUpdate(db, tag).err # NoErr
            THEN [err |-> RepoUpdate(db, tag).err, db |-> db, tag |-> None,
                  calls |-> reads \o <<"Update">>]
       ELSE [err |-> NoErr, db |-> RepoUpdate(db, tag).db, tag |-> Some(tag),
             calls |-> reads \o <<"Update">>]

\* SvcUpdate without the check of the name
SvcUpdate_NoNameCheck(db, rawID, rawName, description, parentTag, actor) ==
    LET tagID == TrimSpace(rawID)
        name == TrimSpace(rawName)
        found == SvcFindByID(db, tagID)
        normalizedParent == NormalizeOptionalTagID(parentTag)
        tag == [found.tag[1] EXCEPT !.Name = name, !.Description = description,
                                    !.ParentTag = normalizedParent,
                                    !.UpdatedBy = DefaultActor(actor)]
        reads == <<"FindByID">> \o ParentRead(normalizedParent)
    IN IF tagID = <<>>
            THEN [err |-> ErrInvalidInput, db |-> db, tag |-> None, calls |-> <<>>]
       ELSE IF found.err # NoErr
            THEN [err |-> found.err, db |-> db, tag |-> None, calls |-> <<"FindByID">>]
       ELSE IF normalizedParent # None /\ normalizedParent[1] = tagID
            THEN [err |-> ErrInvalidInput, db |-> db, tag |-> None, calls |-> <<"FindByID">>]
       ELSE IF normalizedParent # None /\ RepoFindByID(db, normalizedParent[1]).err = ErrRecordNotFound
            THEN [err |-> ErrOrgTagNotFound, db |-> db, tag |-> None, calls |-> reads]
       ELSE IF normalizedParent # None /\ RepoFindByID(db, normalizedParent[1]).err # NoErr
            THEN [err |-> RepoFindByID(db, normalizedParent[1]).err, db |-> db, tag |-> None,
                  calls |-> reads]
       ELSE IF RepoUpdate(db, tag).err = ErrRecordNotFound
            THEN [err |-> ErrOrgTagNotFound, db |-> db, tag |-> None,
                  calls |-> reads \o <<"Update">>]
       ELSE IF RepoUpdate(db, tag).err # NoErr
            THEN [err |-> RepoUpdate(db, tag).err, db |-> db, tag |-> None,
                  calls |-> reads \o <<"Update">>]
       ELSE [err |-> NoErr, db |-> RepoUpdate(db, tag).db, tag |-> Some(tag),
             calls |-> reads \o <<"Update">>]

SvcUpdateOn(db, rawID, rawName, description, parentTag, actor, fault) ==
    LET tagID == TrimSpace(rawID)
        name == TrimSpace(rawName)
        found == SvcFindByIDOn(db, tagID, fault)
        normalizedParent == NormalizeOptionalTagID(parentTag)
        tag == [found.tag[1] EXCEPT !.Name = name, !.Description = description,
                                    !.ParentTag = normalizedParent,
                                    !.UpdatedBy = DefaultActor(actor)]
        reads == <<"FindByID">> \o ParentRead(normalizedParent)
        parent == IF fault = 2 THEN [err |-> ErrBadConn, tag |-> None]
                  ELSE RepoFindByID(db, normalizedParent[1])
        updated == IF fault = 3 THEN [err |-> ErrBadConn, db |-> db]
                   ELSE RepoUpdate(db, tag)
    IN IF tagID = <<>> \/ name = <<>>
            THEN [err |-> ErrInvalidInput, db |-> db, tag |-> None, calls |-> <<>>]
       ELSE IF found.err # NoErr
            THEN [err |-> found.err, db |-> db, tag |-> None, calls |-> <<"FindByID">>]
       ELSE IF normalizedParent # None /\ normalizedParent[1] = tagID
            THEN [err |-> ErrInvalidInput, db |-> db, tag |-> None, calls |-> <<"FindByID">>]
       ELSE IF normalizedParent # None /\ parent.err = ErrRecordNotFound
            THEN [err |-> ErrOrgTagNotFound, db |-> db, tag |-> None, calls |-> reads]
       ELSE IF normalizedParent # None /\ parent.err # NoErr
            THEN [err |-> parent.err, db |-> db, tag |-> None,
                  calls |-> reads]
       ELSE IF updated.err = ErrRecordNotFound
            THEN [err |-> ErrOrgTagNotFound, db |-> db, tag |-> None,
                  calls |-> reads \o <<"Update">>]
       ELSE IF updated.err # NoErr
            THEN [err |-> updated.err, db |-> db, tag |-> None,
                  calls |-> reads \o <<"Update">>]
       ELSE [err |-> NoErr, db |-> updated.db, tag |-> Some(tag),
             calls |-> reads \o <<"Update">>]

SvcUpdate(db, rawID, rawName, description, parentTag, actor) ==
    SvcUpdateOn(db, rawID, rawName, description, parentTag, actor, 0)

\* SvcDelete returning the repository's error as it is
SvcDelete_Unmapped(db, rawID) ==
    LET tagID == TrimSpace(rawID)
        r == RepoDelete(db, tagID)
    IN IF tagID = <<>> THEN [err |-> ErrInvalidInput, db |-> db, calls |-> <<>>]
       ELSE [err |-> r.err, db |-> r.db, calls |-> <<"Delete">>]

\* SvcDeleteOn taking every error but has-children for record-not-found
SvcDeleteOn_AllNotFound(db, rawID, fault) ==
    LET tagID == TrimSpace(rawID)
        r == IF fault = 1 THEN [err |-> ErrBadConn, db |-> db] ELSE RepoDelete(db, tagID)
    IN IF tagID = <<>> THEN [err |-> ErrInvalidInput, db |-> db, calls |-> <<>>]
       ELSE IF r.err # NoErr /\ r.err # RepoErrOrgTagHasChildren
            THEN [err |-> ErrOrgTagNotFound, db |-> db, calls |-> <<"Delete">>]
       ELSE IF r.err = RepoErrOrgTagHasChildren
            THEN [err |-> ErrOrgTagHasChildren, db |-> db, calls |-> <<"Delete">>]
       ELSE [err |-> r.err, db |-> r.db, calls |-> <<"Delete">>]

SvcDeleteOn(db, rawID, fault) ==
    LET tagID == TrimSpace(rawID)
        r == IF fault = 1 THEN [err |-> ErrBadConn, db |-> db] ELSE RepoDelete(db, tagID)
    IN IF tagID = <<>> THEN [err |-> ErrInvalidInput, db |-> db, calls |-> <<>>]
       ELSE IF r.err = ErrRecordNotFound
            THEN [err |-> ErrOrgTagNotFound, db |-> db, calls |-> <<"Delete">>]
       ELSE IF r.err = RepoErrOrgTagHasChildren
            THEN [err |-> ErrOrgTagHasChildren, db |-> db, calls |-> <<"Delete">>]
       ELSE [err |-> r.err, db |-> r.db, calls |-> <<"Delete">>]

SvcDelete(db, rawID) == SvcDeleteOn(db, rawID, 0)

SvcDeleteAndReparentOn(db, rawID, fault) ==
    LET tagID == TrimSpace(rawID)
        r == IF fault = 1 THEN [err |-> ErrBadConn, db |-> db]
             ELSE RepoDeleteAndReparentChildren(db, tagID)
    IN IF tagID = <<>> THEN [err |-> ErrInvalidInput, db |-> db, calls |-> <<>>]
       ELSE IF r.err = ErrRecordNotFound
            THEN [err |-> ErrOrgTagNotFound, db |-> db, calls |-> <<"DeleteAndReparentChildren">>]
       ELSE [err |-> r.err, db |-> r.db, calls |-> <<"DeleteAndReparentChildren">>]

SvcDeleteAndReparent(db, rawID) == SvcDeleteAndReparentOn(db, rawID, 0)

SvcListOn(db, fault) ==
    IF fault = 1 THEN [err |-> ErrBadConn, tags |-> <<>>]
    ELSE [err |-> NoErr, tags |-> RepoFindAll(db)]

SvcList(db) == SvcListOn(db, 0)

OrganizationTagNode(tag) ==
    [TagID |-> tag.TagID, Name |-> tag.Name, Description |-> tag.Description,
     ParentTag |-> tag.ParentTag, Children |-> <<>>]

\* AttachNodes dropping a tag whose parent has no node
RECURSIVE AttachNodes_DropOrphans(_, _, _)
AttachNodes_DropOrphans(tags, i, acc) ==
    IF i > Len(tags) THEN acc
    ELSE LET tag == tags[i]
         IN IF tag.ParentTag # None /\ tag.ParentTag[1] # <<>>
            THEN IF tag.ParentTag[1] \in DOMAIN acc.nodes
                 THEN AttachNodes_DropOrphans(tags, i + 1,
                          [acc EXCEPT !.nodes[tag.ParentTag[1]].Children = Append(@, tag.TagID)])
                 ELSE AttachNodes_DropOrphans(tags, i + 1, acc)
            ELSE AttachNodes_DropOrphans(tags, i + 1, [acc EXCEPT !.tree = Append(@, tag.TagID)])

\* AttachNodes that puts a child in front of its parent's children
RECURSIVE AttachNodes_Prepend(_, _, _)
AttachNodes_Prepend(tags, i, acc) ==
    IF i > Len(tags) THEN acc
    ELSE LET tag == tags[i]
         IN IF tag.ParentTag # None /\ tag.ParentTag[1] # <<>> /\ tag.ParentTag[1] \in DOMAIN acc.nodes
            THEN AttachNodes_Prepend(tags, i + 1,
                     [acc EXCEPT !.nodes[tag.ParentTag[1]].Children = <<tag.TagID>> \o @])
            ELSE AttachNodes_Prepend(tags, i + 1, [acc EXCEPT !.tree = Append(@, tag.TagID)])

\* second pass of GetTree over tags[i..]: acc.nodes maps an id to its node
\* (Children holds the ids of the child nodes), acc.tree lists the root ids
RECURSIVE AttachNodes(_, _, _)
AttachNodes(tags, i, acc) ==
    IF i > Len(tags) THEN acc
    ELSE LET tag == tags[i]
         IN IF tag.ParentTag # None /\ tag.ParentTag[1] # <<>> /\ tag.ParentTag[1] \in DOMAIN acc.nodes
            THEN AttachNodes(tags, i + 1,
                     [acc EXCEPT !.nodes[tag.ParentTag[1]].Children = Append(@, tag.TagID)])
            ELSE AttachNodes(tags, i + 1, [acc EXCEPT !.tree = Append(@, tag.TagID)])

SvcGetTree(db) ==
    LET tags == RepoFindAll(db)
        ids == {tags[i].TagID : i \in 1..Len(tags)}
        nodes == [id \in ids |-> OrganizationTagNode(CHOOSE t \in {tags[i] : i \in 1..Len(tags)} : t.TagID = id)]
    IN AttachNodes(tags, 1, [nodes |-> nodes, tree |-> <<>>])

\* GetTree with its error: FindAll fails when fault = 1
SvcGetTreeOn(db, fault) ==
    IF fault = 1 THEN [err |-> ErrBadConn, tree |-> None]
    ELSE [err |-> NoErr, tree |-> Some(SvcGetTree(db))]

----------------------------------------------------------------------------
(* HTTP handlers of the tag directory: OrgTagHandler.  A query value is a  *)
(* string of symbols; a word is one symbol, written in lower case, in      *)
(* upper case or capitalised.                                              *)

\* strings.ToLower returning its argument
ToLower_Same(s) == s

\* strings.ToLower, symbol by symbol
ToLower(s) ==
    [i \in 1..Len(s) |-> CASE s[i] \in {"PROTECT", "Protect"} -> "protect"
                           [] s[i] \in {"REPARENT", "Reparent"} -> "reparent"
                           [] s[i] = "CASCADE" -> "cascade"
                           [] OTHER -> s[i]]

\* c.DefaultQuery(key, defaultValue): the value when the key is in the
\* query, even with an empty value, else defaultValue
DefaultQuery(value, defaultValue) == IF value = None THEN defaultValue ELSE value[1]

\* mapServiceError: the HTTP status of a service error
MapServiceError(err) ==
    CASE err = ErrInvalidInput -> 400
      [] err = ErrInvalidCredentials -> 401
      [] err = ErrUserAlreadyExists -> 409
      [] err = ErrUserNotFound -> 404
      [] err = ErrOrgTagNotFound -> 404
      [] err = ErrOrgTagNotOwned -> 403
      [] err = ErrOrgTagAlreadyExists -> 409
      [] err = ErrOrgTagHasChildren -> 409
      [] OTHER -> 500

\* the status a handler answers with after a service call
StatusOf(err, ok) == IF err # NoErr THEN MapServiceError(err) ELSE ok

----------------------------------------------------------------------------
(* User service: the users table and the operations on a user's seed tags. *)
(* users is a function from user ids to User records.                      *)

User(id, username, orgTags, primaryOrg) ==
    [ID |-> id, Username |-> username, OrgTags |-> orgTags, PrimaryOrg |-> primaryOrg]

\* strings.Split(s, ","): the pieces of s between separators
RECURSIVE SplitFrom(_, _)
SplitFrom(s, cur) ==
    IF s = <<>> THEN <<cur>>
    ELSE IF Head(s) = Comma THEN <<cur>> \o SplitFrom(Tail(s), <<>>)
    ELSE SplitFrom(Tail(s), Append(cur, Head(s)))

Split(s) == SplitFrom(s, <<>>)

\* strings.Join(items, ",")
RECURSIVE Join(_)
Join(items) ==
    IF items = <<>> THEN <<>>
    ELSE IF Len(items) = 1 THEN items[1]
    ELSE items[1] \o <<Comma>> \o Join(Tail(items))

ContainsString(items, target) == \E i \in 1..Len(items) : items[i] = target

\* the loop shared by parseOrgTagIDs and normalizeOrgTagIDs: trim, skip
\* empties, skip ids already seen, keep input order
RECURSIVE TrimDedup_NoSeen(_, _)
TrimDedup_NoSeen(parts, ids) ==
    IF parts = <<>> THEN ids
    ELSE LET id == TrimSpace(Head(parts))
         IN IF id = <<>> THEN TrimDedup_NoSeen(Tail(parts), ids)
            ELSE TrimDedup_NoSeen(Tail(parts), Append(ids, id))

RECURSIVE TrimDedup(_, _)
TrimDedup(parts, ids) ==
    IF parts = <<>> THEN ids
    ELSE LET id == TrimSpace(Head(parts))
         IN IF id = <<>> THEN TrimDedup(Tail(parts), ids)
            ELSE IF ContainsString(ids, id) THEN TrimDedup(Tail(parts), ids)
            ELSE TrimDedup(Tail(parts), Append(ids, id))

ParseOrgTagIDs(raw) == IF TrimSpace(raw) = <<>> THEN <<>> ELSE TrimDedup(Split(raw), <<>>)

\* the handlers' copy of parseOrgTagIDs
ParseOrgTagIDsForResponse(raw) ==
    IF TrimSpace(raw) = <<>> THEN <<>> ELSE TrimDedup(Split(raw), <<>>)

NormalizeOrgTagIDs(rawIDs) == IF Len(rawIDs) = 0 THEN <<>> ELSE TrimDedup(rawIDs, <<>>)

\* fmt.Sprintf("user:%d:private", id)
PrivateTagID(id) == <<"user:", ToString(id), ":private">>

UserFindByID(us, userID) ==
    IF userID \in DOMAIN us THEN [err |-> NoErr, user |-> Some(us[userID])]
    ELSE [err |-> ErrRecordNotFound, user |-> None]

UserUpdate(us, user) ==
    IF user.ID = 0 THEN [err |-> "user id is required", us |-> us]
    ELSE IF user.ID \notin DOMAIN us THEN [err |-> ErrRecordNotFound, us |-> us]
    ELSE [err |-> NoErr,
          us |-> [us EXCEPT ![user.ID] =
                     [@ EXCEPT !.Username = user.Username, !.OrgTags = user.OrgTags,
                               !.PrimaryOrg = user.PrimaryOrg]]]

SvcRegister(db, us, username) ==
    LET id == Cardinality(DOMAIN us) + 1
        newUser == User(id, username, <<>>, <<>>)
        created == [x \in DOMAIN us \cup {id} |-> IF x = id THEN newUser ELSE us[x]]
        privateTagID == PrivateTagID(id)
        privateTag == OrganizationTag(privateTagID, <<username, Space, "Private">>,
                                      "Auto-created private organization tag", None,
                                      <<username>>, <<username>>)
        tagged == RepoCreate(db, privateTag)
        updated == UserUpdate(created, [newUser EXCEPT !.OrgTags = privateTagID,
                                                       !.PrimaryOrg = privateTagID])
    IN IF \E u \in DOMAIN us : us[u].Username = username
       THEN [err |-> ErrUserAlreadyExists, db |-> db, us |-> us]
       ELSE IF tagged.err # NoErr THEN [err |-> tagged.err, db |-> db, us |-> created]
       ELSE [err |-> updated.err, db |-> tagged.db, us |-> updated.us]

SvcAssignOrgTagsToUser(db, us, userID, orgTagIDs) ==
    LET found == UserFindByID(us, userID)
        user == found.user[1]
        normalizedIDs == NormalizeOrgTagIDs(orgTagIDs)
        primaryOrg == IF Len(normalizedIDs) = 0 THEN <<>>
                      ELSE IF ~ContainsString(normalizedIDs, user.PrimaryOrg) THEN normalizedIDs[1]
                      ELSE user.PrimaryOrg
        updated == UserUpdate(us, [user EXCEPT !.OrgTags = Join(normalizedIDs),
                                               !.PrimaryOrg = primaryOrg])
    IN IF found.err # NoErr THEN [err |-> ErrUserNotFound, us |-> us]
       ELSE IF \E i \in 1..Len(normalizedIDs) : RepoFindByID(db, normalizedIDs[i]).err # NoErr
            THEN [err |-> ErrOrgTagNotFound, us |-> us]
       ELSE IF updated.err = ErrRecordNotFound THEN [err |-> ErrUserNotFound, us |-> us]
       ELSE updated

SvcSetUserPrimaryOrg(db, us, userID, orgTagID) ==
    LET id == TrimSpace(orgTagID)
        found == UserFindByID(us, userID)
        user == found.user[1]
        owned == ParseOrgTagIDs(user.OrgTags)
        updated == UserUpdate(us, [user EXCEPT !.PrimaryOrg = id])
    IN IF id = <<>> THEN [err |-> ErrOrgTagNotFound, us |-> us]
       ELSE IF found.err # NoErr THEN [err |-> ErrUserNotFound, us |-> us]
       ELSE IF ~ContainsString(owned, id) THEN [err |-> ErrOrgTagNotOwned, us |-> us]
       ELSE IF RepoFindByID(db, id).err # NoErr THEN [err |-> ErrOrgTagNotFound, us |-> us]
       ELSE IF updated.err = ErrRecordNotFound THEN [err |-> ErrUserNotFound, us |-> us]
       ELSE updated

----------------------------------------------------------------------------
(* Authentication: JWTManager.VerifyToken, userService.Logout, the Redis   *)
(* token blacklist and AuthMiddleware.  Time is a count of ticks.  rdb is   *)
(* None (database.RDB is nil) or Some(keys), keys a function from a key to  *)
(* its value and the time it expires.                                       *)

TokenTypeAccess == "access"

TokenTypeRefresh == "refresh"

CustomClaims(userID, username, tokenType, expiresAt) ==
    [UserID |-> userID, Username |-> username, Role |-> "USER", TokenType |-> tokenType,
     ExpiresAt |-> expiresAt]

\* the strings presented as tokens
TokenStrings == {<<"t1">>, <<"t2">>, <<"r1">>, <<"g1">>, <<"forged">>}

\* the claims signed into a token string with the manager's key: two access
\* tokens and a refresh token of alice, an access token of a user without a
\* row; None for a string the key did not sign
SignedClaims(tokenString) ==
    CASE tokenString = <<"t1">> -> Some(CustomClaims(1, "alice", TokenTypeAccess, 2))
      [] tokenString = <<"t2">> -> Some(CustomClaims(1, "alice", TokenTypeAccess, 3))
      [] tokenString = <<"r1">> -> Some(CustomClaims(1, "alice", TokenTypeRefresh, 3))
      [] tokenString = <<"g1">> -> Some(CustomClaims(2, "bob", TokenTypeAccess, 3))
      [] OTHER -> None

ErrTokenInvalid == "token signature is invalid"

ErrTokenExpired == "token is expired"

\* jwt.ParseWithClaims at time t: the signature, then exp
VerifyToken(tokenString, t) ==
    LET signed == SignedClaims(tokenString)
    IN IF signed = None THEN [err |-> ErrTokenInvalid, claims |-> None]
       ELSE IF ~(t < signed[1].ExpiresAt) THEN [err |-> ErrTokenExpired, claims |-> None]
       ELSE [err |-> NoErr, claims |-> signed]

\* an entry that does not expire
NoExpiry == -1

\* fmt.Sprintf("token_blacklist:%s", token) and "token_blacklist:" + tokenString
BlacklistKey(tokenString) == <<"token_blacklist:">> \o tokenString

\* SET key value with the expiration ttl, sent at time t: go-redis sends no
\* expiry for a ttl that is not positive
RedisSet(keys, key, value, ttl, t) ==
    (key :> [value |-> value, expireAt |-> IF ttl > 0 THEN t + ttl ELSE NoExpiry]) @@ keys

\* EXISTS that never finds a key
RedisExists_Never(keys, key, t) == 0

\* EXISTS key at time t
RedisExists(keys, key, t) ==
    IF key \in DOMAIN keys /\ (keys[key].expireAt = NoExpiry \/ t < keys[key].expireAt)
    THEN 1 ELSE 0

\* Logout: the token is verified at time t, time.Now() of the Set is t2
SvcLogout(us, client, token, t, t2) ==
    LET verified == VerifyToken(token, t)
        claims == verified.claims[1]
        found == UserFindByID(us, claims.UserID)
        redisKey == BlacklistKey(token)
        redisValue == <<claims.Username, ":", claims.Role>>
    IN IF verified.err # NoErr THEN [err |-> ErrInvalidCredentials, rdb |-> client]
       ELSE IF found.err # NoErr THEN [err |-> ErrUserNotFound, rdb |-> client]
       ELSE IF client = None THEN [err |-> ErrInternal, rdb |-> client]
       ELSE [err |-> NoErr,
             rdb |-> Some(RedisSet(client[1], redisKey, redisValue, claims.ExpiresAt - t2, t2))]

\* strings.Fields: the words of s, a word being a run of symbols without
\* whitespace
RECURSIVE FieldsFrom(_, _)
FieldsFrom(s, cur) ==
    IF s = <<>> THEN (IF cur = <<>> THEN <<>> ELSE <<cur>>)
    ELSE IF Head(s) = Space
         THEN (IF cur = <<>> THEN <<>> ELSE <<cur>>) \o FieldsFrom(Tail(s), <<>>)
         ELSE FieldsFrom(Tail(s), Append(cur, Head(s)))

Fields(s) == FieldsFrom(s, <<>>)

\* strings.EqualFold(word, "Bearer")
EqualFoldBearer(word) == word \in {<<"Bearer">>, <<"bearer">>, <<"BEARER">>}

extractBearerToken(authHeader) ==
    LET parts == Fields(authHeader)
    IN IF Len(parts) # 2 \/ ~EqualFoldBearer(parts[1])
       THEN [err |-> "invalid authorization header", token |-> <<>>]
       ELSE [err |-> NoErr, token |-> parts[2]]

\* the error of userService.GetProfile(username)
SvcGetProfile(us, username) ==
    IF \E u \in DOMAIN us : us[u].Username = username THEN NoErr ELSE ErrUserNotFound

Aborted(status) == [status |-> status, reached |-> FALSE]

\* the middleware on a request with the header authHeader: the token is
\* verified at time t, the blacklist is read at time t2.  reached tells
\* whether c.Next() ran the handler.
AuthMiddleware(us, client, authHeader, t, t2) ==
    LET extracted == extractBearerToken(authHeader)
        tokenString == extracted.token
        verified == VerifyToken(tokenString, t)
        claims == verified.claims[1]
    IN IF extracted.err # NoErr THEN Aborted(401)
       ELSE IF verified.err # NoErr THEN Aborted(401)
       ELSE IF claims.TokenType # TokenTypeAccess THEN Aborted(401)
       ELSE IF client = None THEN Aborted(500)
       ELSE IF RedisExists(client[1], BlacklistKey(tokenString), t2) > 0 THEN Aborted(401)
       ELSE IF SvcGetProfile(us, claims.Username) # NoErr THEN Aborted(401)
       ELSE [status |-> 200, reached |-> TRUE]

----------------------------------------------------------------------------
(* Effective-tag resolver: userService.GetUserEffectiveOrgTags.  The call  *)
(* reads the user and the tag table (ResolveBegin), then runs one          *)
(* iteration of its queue loop per ResolveStep.                            *)

\* tagByID as built from allTags
TagByID(allTags) ==
    [id \in {allTags[i].TagID : i \in 1..Len(allTags)} |->
        (CHOOSE t \in {allTags[i] : i \in 1..Len(allTags)} : t.TagID = id)]

\* children[id] as built by the pass over allTags[i..]
RECURSIVE ChildrenFrom(_, _, _)
ChildrenFrom(allTags, i, id) ==
    IF i > Len(allTags) THEN <<>>
    ELSE LET t == allTags[i]
         IN IF t.ParentTag # None /\ t.ParentTag[1] # <<>> /\ t.ParentTag[1] = id
            THEN <<t.TagID>> \o ChildrenFrom(allTags, i + 1, id)
            ELSE ChildrenFrom(allTags, i + 1, id)

ChildrenIndex(allTags, id) == ChildrenFrom(allTags, 1, id)

\* EnqueueChildren that enqueues nothing
EnqueueChildren_None(queue, childIDs, visited) == queue

\* the children of id appended to the queue: those not yet visited
RECURSIVE EnqueueChildren(_, _, _)
EnqueueChildren(queue, childIDs, visited) ==
    IF childIDs = <<>> THEN queue
    ELSE IF Head(childIDs) \notin visited
         THEN EnqueueChildren(Append(queue, Head(childIDs)), Tail(childIDs), visited)
         ELSE EnqueueChildren(queue, Tail(childIDs), visited)

\* the visited check of the loop always failing
AlreadyVisited_Never(id, visited) == FALSE

\* if _, ok := visited[id]; ok { continue }
AlreadyVisited(id, visited) == id \in visited

\* the loop of GetUserEffectiveOrgTags run to its end over allTags
RECURSIVE ResolveLoop(_, _, _, _)
ResolveLoop(allTags, queue, visited, result) ==
    IF Len(queue) = 0 THEN [err |-> NoErr, tags |-> result]
    ELSE LET id == Head(queue)
         IN IF AlreadyVisited(id, visited)
            THEN ResolveLoop(allTags, Tail(queue), visited, result)
            ELSE IF id \notin DOMAIN TagByID(allTags)
            THEN [err |-> ErrOrgTagNotFound, tags |-> <<>>]
            ELSE ResolveLoop(allTags,
                             EnqueueChildren(Tail(queue), ChildrenIndex(allTags, id), visited \cup {id}),
                             visited \cup {id},
                             Append(result, TagByID(allTags)[id]))

\* what GetUserEffectiveOrgTags returns for a user whose seeds are seedIDs
EffectiveTags(db, seedIDs) ==
    IF Len(seedIDs) = 0 THEN [err |-> NoErr, tags |-> <<>>]
    ELSE ResolveLoop(RepoFindAll(db), seedIDs, {}, <<>>)

----------------------------------------------------------------------------
(* Inputs *)

TagIDs == {<<"a">>, <<"b">>, <<"c">>}

Pad(k) == [i \in 1..k |-> Space]

\* ids as callers send them: blank, plain, or with surrounding whitespace
RawIDs == {Pad(k) : k \in 0..MaxPad} \cup TagIDs \cup {Pad(MaxPad) \o <<"a">> \o Pad(MaxPad)}

Padded(t) == Pad(MaxPad) \o t \o Pad(MaxPad)

Usernames == {"alice"}

UserIDs == {1, 2}


RECURSIVE SeqsUpTo(_, _)
SeqsUpTo(S, n) == IF n = 0 THEN {<<>>}
                  ELSE SeqsUpTo(S, n - 1) \cup {Append(q, x) : q \in {r \in SeqsUpTo(S, n - 1) : Len(r) = n - 1}, x \in S}

\* the OrgTags strings a user row may hold: ids, spaces and separators in
\* any arrangement
RawOrgTags == SeqsUpTo({"a", "b", Space, Comma}, MaxRaw)

\* the lists sent to AssignOrgTagsToUser: ids in any order, with repeats,
\* and a padded and a blank element
AssignLists == SeqsUpTo(TagIDs, MaxAssign) \cup {<<Padded(<<"a">>)>>, <<Pad(MaxPad)>>}

\* user 1 is the user Register creates, user 2 has no row
AssignRequests == {<<1, l>> : l \in AssignLists} \cup {<<2, <<>>>>}

\* the tag ids of the requests about a user's tags: plain ids and an id
\* with the separator in it
UserTagIDs == {<<"a">>, <<"b">>, <<"a", Comma, "b">>}

\* the lists sent to AssignOrgTagsToUser for those ids
UserAssignLists == SeqsUpTo(UserTagIDs, MaxAssign) \cup {<<Padded(<<"a">>)>>, <<Pad(MaxPad)>>}

UserAssignRequests == {<<1, l>> : l \in UserAssignLists} \cup {<<2, <<>>>>}

\* the requests of SetUserPrimaryOrg: plain, padded and blank ids
PrimaryOrgRequests ==
    {<<1, t>> : t \in UserTagIDs \cup {Padded(<<"a">>), Pad(MaxPad)}} \cup {<<2, <<"a">>>>}

\* the Authorization headers of the requests: every token behind the scheme,
\* the scheme in another case and with more whitespace, no scheme, another
\* scheme, no whitespace, no header
AuthHeaders ==
    {<<"Bearer", Space>> \o tok : tok \in TokenStrings}
    \cup {<<"bearer", Space, Space, "t1", Space>>, <<"t1">>, <<"Basic", Space, "t1">>,
          <<"Bearer", "t1">>, <<>>}

\* the token a header presents: its last word
Presented(authHeader) ==
    LET parts == Fields(authHeader)
    IN IF parts = <<>> THEN <<>> ELSE parts[Len(parts)]

\* the times a call that began at time t may reach a later statement
Later(t) == {t2 \in t..(t + 1) : t2 <= MaxTime}

Payload(name, description, actor) == [name |-> name, description |-> description, actor |-> actor]

P1 == Payload(<<"n1">>, "d1", <<>>)

P2 == Payload(<<Space, "n2">>, "d2", <<"admin", Space>>)

PBlank == Payload(<<Space>>, "d1", <<"admin">>)

\* the requests of Create and Update with plain ids: every id with every parent
PlainRequests(payloads) ==
    {<<t, p, par>> : t \in TagIDs, p \in payloads, par \in {None} \cup {Some(x) : x \in TagIDs}}

\* the requests of Create and Update: the plain ones and the blank, padded,
\* self-parent and blank-name requests
TagRequests(payloads) ==
    PlainRequests(payloads)
    \cup {<<Pad(k), P1, None>> : k \in 0..MaxPad}
    \cup {<<t, P1, Some(Pad(k))>> : t \in {<<"a">>, <<"b">>}, k \in 0..MaxPad}
    \cup {<<Padded(<<"a">>), P1, Some(Padded(<<"a">>))>>,
          <<Padded(<<"a">>), P1, Some(Padded(<<"b">>))>>,
          <<Padded(<<"b">>), P1, Some(Padded(<<"a">>))>>,
          <<<<"a">>, PBlank, None>>,
          <<<<"a">>, PBlank, Some(<<"b">>)>>}

Last(op, id, err, out) == [op |-> op, id |-> id, err |-> err, out |-> out]

\* what is kept of a Create or an Update: the request in as it was sent and
\* the result r of the service
LastWrite(op, in, r) ==
    [op |-> op, id |-> TrimSpace(in[1]), err |-> r.err, out |-> r.tag, in |-> in, calls |-> r.calls]

\* the clients whose requests run at the same time
Clients == {1, 2}

\* the ids the concurrent clients use
ConcurrentIDs == {<<"a">>, <<"b">>}

\* the requests the concurrent clients send: plain ids with every parent
\* (the self-parent ones included) and a blank id
ConcurrentRequests ==
    {in \in PlainRequests({P1}) : in[1] \in ConcurrentIDs /\ in[3] \in {None} \cup {Some(x) : x \in ConcurrentIDs}}
    \cup {<<Pad(MaxPad), P1, None>>}

\* the id the writes that commit during a resolver call are about
RacingIDs == {<<"b">>}

\* the requests of those writes: that id with every parent
RacingRequests == {in \in PlainRequests({P1}) : in[1] \in RacingIDs}

\* a request in flight.  pc is the repository call it makes next ("parent",
\* "count", "write"), "done" when it has returned err, "idle" when the
\* client has no request; tagID, p and parent are the request's locals, tag
\* the record Update fetched, n the child count of the transaction's
\* snapshot.
Request(op, pc, tagID, p, parent, tag, n, err) ==
    [op |-> op, pc |-> pc, tagID |-> tagID, p |-> p, parent |-> parent, tag |-> tag,
     n |-> n, err |-> err, rows |-> {}, seen |-> None]

Idle == Request("none", "idle", <<>>, P1, None, None, 0, NoErr)

Done(op, tagID, parent, err) == Request(op, "done", tagID, P1, parent, None, 0, err)

\* the repository call of a request that fails with ErrBadConn, counted in
\* the order of the service method's code; 0 when none fails
Faults == 0..3

\* the user the middleware left in the request's context, if any
CtxUsers == {None, Some(<<"alice">>)}

\* JSON bodies of POST /org-tags: None when the body is no JSON object; a
\* field that is missing or empty is the empty string
CreateBodies ==
    {None} \cup
    {Some([tagId |-> t, name |-> n, description |-> "d1", parentTag |-> par]) :
        t \in {<<>>, Pad(MaxPad)} \cup ConcurrentIDs,
        n \in {<<>>, <<"n1">>},
        par \in {None} \cup {Some(x) : x \in ConcurrentIDs}}

\* JSON bodies of PUT /org-tags/:id
UpdateBodies ==
    {None} \cup
    {Some([name |-> n, description |-> "d1", parentTag |-> par]) :
        n \in {<<>>, <<"n1">>},
        par \in {None} \cup {Some(x) : x \in ConcurrentIDs}}

\* the :id of a path
PathIDs == ConcurrentIDs \cup {Pad(MaxPad)}

\* the strategy of DELETE /org-tags/:id?strategy=...: None when the query
\* has no such key
Strategies ==
    {None} \cup {Some(q) : q \in {<<>>, <<"protect">>, <<"reparent">>, <<"PROTECT">>,
                                   <<Space, "Reparent", Space>>, <<"cascade">>}}

\* what is kept of a handled request: the request, the service methods and
\* the repository methods called, the service's error and the status
LastResponse(op, id, in, fault, svc, r, status) ==
    [op |-> op, id |-> TrimSpace(id), err |-> r.err, out |-> None, in |-> in, fault |-> fault,
     svc |-> svc, calls |-> r.calls, status |-> status]

\* a request answered before any service call
Unserved == [err |-> NoErr, calls |-> <<>>]

\* what is kept of a Delete or a DeleteAndReparent
LastDelete(op, rawID, r) ==
    [op |-> op, id |-> TrimSpace(rawID), err |-> r.err, out |-> None, calls |-> r.calls]

----------------------------------------------------------------------------
(* State machine *)

Init ==
    /\ store = <<>>
    /\ users = <<>>
    /\ last = Last("none", <<>>, NoErr, None)
    /\ prev = <<>>
    /\ reqs = [c \in Clients |-> Idle]
    /\ rpc = "idle"
    /\ rUser = 0
    /\ rSeeds = <<>>
    /\ rAll = <<>>
    /\ rQueue = <<>>
    /\ rVisited = {}
    /\ rResult = <<>>
    /\ rErr = NoErr
    /\ rReads = 0
    /\ rTrace = <<>>
    /\ now = 0
    /\ rdb = Some(<<>>)
    /\ revoked = {}
    /\ served = None

Create(rawID, p, parentTag) ==
    /\ rpc = "idle"
    /\ LET r == SvcCreate(store, rawID, p.name, p.description, parentTag, p.actor)
       IN /\ store' = r.db
          /\ last' = LastWrite("Create", <<rawID, p, parentTag>>, r)
          /\ prev' = store
    /\ UNCHANGED <<users, reqs, resolverVars, authVars>>

Update(rawID, p, parentTag) ==
    /\ rpc = "idle"
    /\ LET r == SvcUpdate(store, rawID, p.name, p.description, parentTag, p.actor)
       IN /\ store' = r.db
          /\ last' = LastWrite("Update", <<rawID, p, parentTag>>, r)
          /\ prev' = store
    /\ UNCHANGED <<users, reqs, resolverVars, authVars>>

Delete(rawID) ==
    /\ rpc = "idle"
    /\ LET r == SvcDelete(store, rawID)
       IN /\ store' = r.db
          /\ last' = LastDelete("Delete", rawID, r)
          /\ prev' = store
    /\ UNCHANGED <<users, reqs, resolverVars, authVars>>

DeleteAndReparent(rawID) ==
    /\ rpc = "idle"
    /\ LET r == SvcDeleteAndReparent(store, rawID)
       IN /\ store' = r.db
          /\ last' = LastDelete("DeleteAndReparent", rawID, r)
          /\ prev' = store
    /\ UNCHANGED <<users, reqs, resolverVars, authVars>>

\* The same four writes made by another client: the store changes and the
\* response is not kept.
Unobserved == last' = Last("none", <<>>, NoErr, None) /\ prev' = <<>>

OtherCreate(rawID, p, parentTag) ==
    /\ rpc = "idle"
    /\ store' = SvcCreate(store, rawID, p.name, p.description, parentTag, p.actor).db
    /\ Unobserved
    /\ UNCHANGED <<users, reqs, resolverVars, authVars>>

OtherUpdate(rawID, p, parentTag) ==
    /\ rpc = "idle"
    /\ store' = SvcUpdate(store, rawID, p.name, p.description, parentTag, p.actor).db
    /\ Unobserved
    /\ UNCHANGED <<users, reqs, resolverVars, authVars>>

OtherDelete(rawID) ==
    /\ rpc = "idle"
    /\ store' = SvcDelete(store, rawID).db
    /\ Unobserved
    /\ UNCHANGED <<users, reqs, resolverVars, authVars>>

OtherDeleteAndReparent(rawID) ==
    /\ rpc = "idle"
    /\ store' = SvcDeleteAndReparent(store, rawID).db
    /\ Unobserved
    /\ UNCHANGED <<users, reqs, resolverVars, authVars>>

List ==
    /\ rpc = "idle"
    /\ last' = Last("List", <<>>, SvcList(store).err, SvcList(store).tags)
    /\ prev' = store
    /\ UNCHANGED <<store, users, reqs, resolverVars, authVars>>

\* GetTree that deletes the tags whose parent has no row
GetTree_DropOrphans ==
    /\ rpc = "idle"
    /\ last' = Last("GetTree", <<>>, NoErr, SvcGetTree(store))
    /\ prev' = store
    /\ store' = [t \in {x \in DOMAIN store : store[x].ParentTag = None
                                             \/ store[x].ParentTag[1] \in DOMAIN store}
                  |-> store[t]]
    /\ UNCHANGED <<users, reqs, resolverVars, authVars>>

GetTree ==
    /\ rpc = "idle"
    /\ last' = Last("GetTree", <<>>, NoErr, SvcGetTree(store))
    /\ prev' = store
    /\ UNCHANGED <<store, users, reqs, resolverVars, authVars>>

FindByID(rawID) ==
    /\ rpc = "idle"
    /\ last' = Last("FindByID", TrimSpace(rawID), SvcFindByID(store, rawID).err, SvcFindByID(store, rawID).tag)
    /\ prev' = store
    /\ UNCHANGED <<store, users, reqs, resolverVars, authVars>>

Register(username) ==
    /\ rpc = "idle"
    /\ LET r == SvcRegister(store, users, username)
       IN /\ store' = r.db
          /\ users' = r.us
          /\ last' = Last("Register", <<>>, r.err, None)
          /\ prev' = store
    /\ UNCHANGED <<reqs, resolverVars, authVars>>

AssignOrgTagsToUser(userID, orgTagIDs) ==
    /\ rpc = "idle"
    /\ LET r == SvcAssignOrgTagsToUser(store, users, userID, orgTagIDs)
       IN /\ users' = r.us
          /\ last' = Last("AssignOrgTagsToUser", <<>>, r.err, None)
          /\ prev' = store
    /\ UNCHANGED <<store, reqs, resolverVars, authVars>>

\* a call that returns before its loop
ResolveReturns(err, seeds) ==
    /\ rpc' = "done"
    /\ rErr' = err
    /\ rSeeds' = seeds
    /\ rResult' = <<>>
    /\ UNCHANGED <<rAll, rQueue, rVisited, rReads, rTrace>>

\* ResolveBegin reading the tag table before it looks at the seeds
ResolveBegin_ReadFirst(userID) ==
    /\ rpc = "idle"
    /\ last' = Last("GetUserEffectiveOrgTags", <<>>, NoErr, None)
    /\ prev' = store
    /\ rUser' = userID
    /\ LET found == UserFindByID(users, userID)
           seedIDs == ParseOrgTagIDs(found.user[1].OrgTags)
       IN IF found.err # NoErr THEN ResolveReturns(ErrUserNotFound, <<>>)
          ELSE /\ rpc' = IF Len(seedIDs) = 0 THEN "done" ELSE "loop"
               /\ rSeeds' = seedIDs
               /\ rAll' = RepoFindAll(store)
               /\ rReads' = rReads + 1
               /\ rQueue' = seedIDs
               /\ rVisited' = {}
               /\ rResult' = <<>>
               /\ rErr' = NoErr
               /\ rTrace' = <<>>
    /\ UNCHANGED <<store, users, reqs, authVars>>

ResolveBegin(userID) ==
    /\ rpc = "idle"
    /\ last' = Last("GetUserEffectiveOrgTags", <<>>, NoErr, None)
    /\ prev' = store
    /\ rUser' = userID
    /\ LET found == UserFindByID(users, userID)
           seedIDs == ParseOrgTagIDs(found.user[1].OrgTags)
       IN IF found.err # NoErr THEN ResolveReturns(ErrUserNotFound, <<>>)
          ELSE IF Len(seedIDs) = 0 THEN ResolveReturns(NoErr, <<>>)
          ELSE /\ rpc' = "loop"
               /\ rSeeds' = seedIDs
               /\ rAll' = RepoFindAll(store)
               /\ rReads' = rReads + 1
               /\ rQueue' = seedIDs
               /\ rVisited' = {}
               /\ rResult' = <<>>
               /\ rErr' = NoErr
               /\ rTrace' = <<>>
    /\ UNCHANGED <<store, users, reqs, authVars>>

\* ResolveStep skipping an id that tagByID does not hold
ResolveStep_SkipMissing ==
    /\ rpc = "loop"
    /\ IF Len(rQueue) = 0
       THEN /\ rpc' = "done"
            /\ UNCHANGED <<rQueue, rVisited, rResult, rErr, rTrace>>
       ELSE LET id == Head(rQueue)
                queue == Tail(rQueue)
                visited == rVisited \cup {id}
            IN IF AlreadyVisited(id, rVisited)
               THEN /\ rQueue' = queue
                    /\ UNCHANGED <<rpc, rVisited, rResult, rErr, rTrace>>
               ELSE IF id \notin DOMAIN TagByID(rAll)
               THEN /\ rQueue' = queue
                    /\ rVisited' = visited
                    /\ rTrace' = Append(rTrace, id)
                    /\ UNCHANGED <<rpc, rErr, rResult>>
               ELSE /\ rResult' = Append(rResult, TagByID(rAll)[id])
                    /\ rQueue' = EnqueueChildren(queue, ChildrenIndex(rAll, id), visited)
                    /\ rVisited' = visited
                    /\ rTrace' = Append(rTrace, id)
                    /\ UNCHANGED <<rpc, rErr>>
    /\ UNCHANGED <<store, users, last, prev, reqs, rUser, rSeeds, rAll, rReads, authVars>>

\* ResolveStep reading the tag table again at every turn of the loop
ResolveStep_Reread ==
    /\ rpc = "loop"
    /\ IF Len(rQueue) = 0
       THEN /\ rpc' = "done"
            /\ UNCHANGED <<rQueue, rVisited, rResult, rErr, rTrace, rAll>>
       ELSE LET id == Head(rQueue)
                queue == Tail(rQueue)
                visited == rVisited \cup {id}
                allTags == RepoFindAll(store)
            IN /\ rAll' = allTags
               /\ IF AlreadyVisited(id, rVisited)
                  THEN /\ rQueue' = queue
                       /\ UNCHANGED <<rpc, rVisited, rResult, rErr, rTrace>>
                  ELSE IF id \notin DOMAIN TagByID(allTags)
                  THEN /\ rpc' = "done"
                       /\ rErr' = ErrOrgTagNotFound
                       /\ rResult' = <<>>
                       /\ rQueue' = queue
                       /\ rVisited' = visited
                       /\ rTrace' = Append(rTrace, id)
                  ELSE /\ rResult' = Append(rResult, TagByID(allTags)[id])
                       /\ rQueue' = EnqueueChildren(queue, ChildrenIndex(allTags, id), visited)
                       /\ rVisited' = visited
                       /\ rTrace' = Append(rTrace, id)
                       /\ UNCHANGED <<rpc, rErr>>
    /\ UNCHANGED <<store, users, last, prev, reqs, rUser, rSeeds, rReads, authVars>>

\* ResolveStep that does not mark the id it takes from the queue
ResolveStep_NoMark ==
    /\ rpc = "loop"
    /\ IF Len(rQueue) = 0
       THEN /\ rpc' = "done"
            /\ UNCHANGED <<rQueue, rVisited, rResult, rErr, rTrace>>
       ELSE LET id == Head(rQueue)
                queue == Tail(rQueue)
                visited == rVisited
            IN IF AlreadyVisited(id, rVisited)
               THEN /\ rQueue' = queue
                    /\ UNCHANGED <<rpc, rVisited, rResult, rErr, rTrace>>
               ELSE IF id \notin DOMAIN TagByID(rAll)
               THEN /\ rpc' = "done"
                    /\ rErr' = ErrOrgTagNotFound
                    /\ rResult' = <<>>
                    /\ rQueue' = queue
                    /\ rVisited' = visited
                    /\ rTrace' = Append(rTrace, id)
               ELSE /\ rResult' = Append(rResult, TagByID(rAll)[id])
                    /\ rQueue' = EnqueueChildren(queue, ChildrenIndex(rAll, id), visited)
                    /\ rVisited' = visited
                    /\ rTrace' = Append(rTrace, id)
                    /\ UNCHANGED <<rpc, rErr>>
    /\ UNCHANGED <<store, users, last, prev, reqs, rUser, rSeeds, rAll, rReads, authVars>>

ResolveStep ==
    /\ rpc = "loop"
    /\ IF Len(rQueue) = 0
       THEN /\ rpc' = "done"
            /\ UNCHANGED <<rQueue, rVisited, rResult, rErr, rTrace>>
       ELSE LET id == Head(rQueue)
                queue == Tail(rQueue)
                visited == rVisited \cup {id}
            IN IF AlreadyVisited(id, rVisited)
               THEN /\ rQueue' = queue
                    /\ UNCHANGED <<rpc, rVisited, rResult, rErr, rTrace>>
               ELSE IF id \notin DOMAIN TagByID(rAll)
               THEN /\ rpc' = "done"
                    /\ rErr' = ErrOrgTagNotFound
                    /\ rResult' = <<>>
                    /\ rQueue' = queue
                    /\ rVisited' = visited
                    /\ rTrace' = Append(rTrace, id)
               ELSE /\ rResult' = Append(rResult, TagByID(rAll)[id])
                    /\ rQueue' = EnqueueChildren(queue, ChildrenIndex(rAll, id), visited)
                    /\ rVisited' = visited
                    /\ rTrace' = Append(rTrace, id)
                    /\ UNCHANGED <<rpc, rErr>>
    /\ UNCHANGED <<store, users, last, prev, reqs, rUser, rSeeds, rAll, rReads, authVars>>

\* a tag write of another request that commits while the resolver is in its
\* loop, after its read of the tag table
RacingCreate(rawID, p, parentTag) ==
    /\ rpc = "loop"
    /\ store' = SvcCreate(store, rawID, p.name, p.description, parentTag, p.actor).db
    /\ UNCHANGED <<users, last, prev, reqs, resolverVars, authVars>>

RacingUpdate(rawID, p, parentTag) ==
    /\ rpc = "loop"
    /\ store' = SvcUpdate(store, rawID, p.name, p.description, parentTag, p.actor).db
    /\ UNCHANGED <<users, last, prev, reqs, resolverVars, authVars>>

RacingDelete(rawID) ==
    /\ rpc = "loop"
    /\ store' = SvcDelete(store, rawID).db
    /\ UNCHANGED <<users, last, prev, reqs, resolverVars, authVars>>

RacingDeleteAndReparent(rawID) ==
    /\ rpc = "loop"
    /\ store' = SvcDeleteAndReparent(store, rawID).db
    /\ UNCHANGED <<users, last, prev, reqs, resolverVars, authVars>>

\* the response is delivered and the call's locals are gone
ResolveEnd ==
    /\ rpc = "done"
    /\ rpc' = "idle"
    /\ rUser' = 0
    /\ rSeeds' = <<>>
    /\ rAll' = <<>>
    /\ rQueue' = <<>>
    /\ rVisited' = {}
    /\ rResult' = <<>>
    /\ rErr' = NoErr
    /\ rReads' = 0
    /\ rTrace' = <<>>
    /\ UNCHANGED <<store, users, last, prev, reqs, authVars>>

\* UserHandler.GetProfile for the user the middleware put in the context;
\* a request with no user in the context gets 401 and reads nothing
SetUserPrimaryOrg(userID, orgTagID) ==
    /\ rpc = "idle"
    /\ LET r == SvcSetUserPrimaryOrg(store, users, userID, orgTagID)
       IN /\ users' = r.us
          /\ last' = Last("SetUserPrimaryOrg", TrimSpace(orgTagID), r.err, None)
          /\ prev' = store
    /\ UNCHANGED <<store, reqs, resolverVars, authVars>>

Tick ==
    /\ now < MaxTime
    /\ now' = now + 1
    /\ UNCHANGED <<store, users, last, prev, reqs, resolverVars, rdb, revoked, served>>

Logout(token) ==
    /\ rpc = "idle"
    /\ \E t2 \in Later(now) :
          LET r == SvcLogout(users, rdb, token, now, t2)
          IN /\ rdb' = r.rdb
             /\ revoked' = IF r.err = NoErr THEN revoked \cup {token} ELSE revoked
             /\ now' = t2
             /\ last' = Last("Logout", token, r.err, None)
    /\ prev' = store
    /\ UNCHANGED <<store, users, reqs, resolverVars, served>>

\* a request to a protected route.  served keeps the token presented, the
\* time of the blacklist read, whether a Logout of the token had succeeded
\* before, and the response.
AuthRequest(authHeader) ==
    /\ rpc = "idle"
    /\ \E t2 \in Later(now) :
          LET r == AuthMiddleware(users, rdb, authHeader, now, t2)
          IN /\ served' = Some([token |-> Presented(authHeader), at |-> t2,
                                 revoked |-> Presented(authHeader) \in revoked,
                                 status |-> r.status, reached |-> r.reached])
             /\ now' = t2
    /\ last' = Last("AuthRequest", Presented(authHeader), NoErr, None)
    /\ prev' = store
    /\ UNCHANGED <<store, users, reqs, resolverVars, rdb, revoked>>

GetProfile(userID) ==
    /\ rpc = "idle"
    /\ last' = IF userID \in DOMAIN users
               THEN Last("GetProfile", <<>>, NoErr,
                         Some(ParseOrgTagIDsForResponse(users[userID].OrgTags)))
               ELSE Last("GetProfile", <<>>, ErrUserNotFound, None)
    /\ prev' = store
    /\ UNCHANGED <<store, users, reqs, resolverVars, authVars>>

\* OrgTagHandler.Create
HandlerCreate(body, user, fault) ==
    /\ rpc = "idle"
    /\ prev' = store
    /\ IF body = None \/ body[1].tagId = <<>> \/ body[1].name = <<>>
       THEN /\ last' = LastResponse("HandlerCreate", <<>>, <<body, user>>, fault, <<>>, Unserved, 400)
            /\ UNCHANGED store
       ELSE IF user = None
       THEN /\ last' = LastResponse("HandlerCreate", body[1].tagId, <<body, user>>, fault, <<>>,
                                    Unserved, 401)
            /\ UNCHANGED store
       ELSE LET req == body[1]
                r == SvcCreateOn(store, req.tagId, req.name, req.description, req.parentTag,
                                 user[1], fault)
            IN /\ store' = r.db
               /\ last' = LastResponse("HandlerCreate", req.tagId, <<body, user>>, fault,
                                       <<"Create">>, r, StatusOf(r.err, 201))
    /\ UNCHANGED <<users, reqs, resolverVars, authVars>>

\* OrgTagHandler.Update
HandlerUpdate(tagID, body, user, fault) ==
    /\ rpc = "idle"
    /\ prev' = store
    /\ IF body = None \/ body[1].name = <<>>
       THEN /\ last' = LastResponse("HandlerUpdate", tagID, <<body, user>>, fault, <<>>, Unserved, 400)
            /\ UNCHANGED store
       ELSE IF user = None
       THEN /\ last' = LastResponse("HandlerUpdate", tagID, <<body, user>>, fault, <<>>, Unserved, 401)
            /\ UNCHANGED store
       ELSE LET req == body[1]
                r == SvcUpdateOn(store, tagID, req.name, req.description, req.parentTag,
                                 user[1], fault)
            IN /\ store' = r.db
               /\ last' = LastResponse("HandlerUpdate", tagID, <<body, user>>, fault,
                                       <<"Update">>, r, StatusOf(r.err, 200))
    /\ UNCHANGED <<users, reqs, resolverVars, authVars>>

\* OrgTagHandler.Delete
HandlerDelete(tagID, query, fault) ==
    /\ rpc = "idle"
    /\ prev' = store
    /\ LET strategy == ToLower(TrimSpace(DefaultQuery(query, <<"protect">>)))
       IN IF strategy = <<"protect">>
          THEN LET r == SvcDeleteOn(store, tagID, fault)
               IN /\ store' = r.db
                  /\ last' = LastResponse("HandlerDelete", tagID, <<tagID, query>>, fault,
                                          <<"Delete">>, r, StatusOf(r.err, 200))
          ELSE IF strategy = <<"reparent">>
          THEN LET r == SvcDeleteAndReparentOn(store, tagID, fault)
               IN /\ store' = r.db
                  /\ last' = LastResponse("HandlerDelete", tagID, <<tagID, query>>, fault,
                                          <<"DeleteAndReparent">>, r, StatusOf(r.err, 200))
          ELSE /\ last' = LastResponse("HandlerDelete", tagID, <<tagID, query>>, fault, <<>>,
                                       Unserved, 400)
               /\ UNCHANGED store
    /\ UNCHANGED <<users, reqs, resolverVars, authVars>>

\* OrgTagHandler.List
HandlerList(fault) ==
    /\ rpc = "idle"
    /\ prev' = store
    /\ LET r == SvcListOn(store, fault)
       IN last' = LastResponse("HandlerList", <<>>, <<>>, fault, <<"List">>,
                               [err |-> r.err, calls |-> <<"FindAll">>], StatusOf(r.err, 200))
    /\ UNCHANGED <<store, users, reqs, resolverVars, authVars>>

\* OrgTagHandler.GetTree
HandlerGetTree(fault) ==
    /\ rpc = "idle"
    /\ prev' = store
    /\ LET r == SvcGetTreeOn(store, fault)
       IN last' = LastResponse("HandlerGetTree", <<>>, <<>>, fault, <<"GetTree">>,
                               [err |-> r.err, calls |-> <<"FindAll">>], StatusOf(r.err, 200))
    /\ UNCHANGED <<store, users, reqs, resolverVars, authVars>>

(* Requests of several clients at once.  A service method is a sequence of *)
(* repository calls with no transaction around it, so each call is a step  *)
(* and the steps of different requests interleave.  A repository           *)
(* transaction reads and writes in its own steps; the rows it wrote are    *)
(* locked and its writes are unseen by the others until it commits.        *)
(* prev is the store as the request that began last found it; a response   *)
(* is kept until its client or a later request of another client begins,   *)
(* so two responses held together belong to requests that overlapped.      *)

Starts(c, r) ==
    /\ reqs[c].pc \in {"idle", "done"}
    /\ reqs' = [x \in Clients |-> IF x = c THEN r
                                  ELSE IF reqs[x].pc = "done" THEN Idle ELSE reqs[x]]
    /\ prev' = store

Steps(c, r) == reqs' = [reqs EXCEPT ![c] = r]

Returns(c, err) == Steps(c, [reqs[c] EXCEPT !.pc = "done", !.err = err, !.tag = None])

\* the row of tag t is written by a transaction of another client that has
\* not ended yet: a statement that writes the row waits
Locked(c, t) == \E d \in Clients \ {c} : reqs[d].pc = "commit" /\ t \in reqs[d].rows

\* FindAll, the one SELECT of List, of GetTree and of the resolver; seen is
\* what it returns
FindAllRead(c) ==
    /\ Starts(c, [Done("FindAll", <<>>, None, NoErr) EXCEPT !.seen = Some(RepoFindAll(store))])
    /\ UNCHANGED <<store, users, last, resolverVars, authVars>>

\* Create up to its first repository call, FindByID(tagID)
CreateBegin(c, in) ==
    LET tagID == TrimSpace(in[1])
        name == TrimSpace(in[2].name)
        normalizedParent == NormalizeOptionalTagID(in[3])
        found == RepoFindByID(store, tagID)
    IN /\ IF tagID = <<>> \/ name = <<>>
          THEN Starts(c, Done("Create", tagID, normalizedParent, ErrInvalidInput))
          ELSE IF normalizedParent # None /\ normalizedParent[1] = tagID
          THEN Starts(c, Done("Create", tagID, normalizedParent, ErrInvalidInput))
          ELSE IF found.err = NoErr
          THEN Starts(c, Done("Create", tagID, normalizedParent, ErrOrgTagAlreadyExists))
          ELSE IF found.err # ErrRecordNotFound
          THEN Starts(c, Done("Create", tagID, normalizedParent, found.err))
          ELSE Starts(c, Request("Create", IF normalizedParent # None THEN "parent" ELSE "write",
                                 tagID, in[2], normalizedParent, None, 0, NoErr))
       /\ UNCHANGED <<store, users, last, resolverVars, authVars>>

\* Create's FindByID(*normalizedParent)
CreateCheckParent(c) ==
    /\ reqs[c].op = "Create" /\ reqs[c].pc = "parent"
    /\ LET found == RepoFindByID(store, reqs[c].parent[1])
       IN IF found.err = ErrRecordNotFound THEN Returns(c, ErrOrgTagNotFound)
          ELSE IF found.err # NoErr THEN Returns(c, found.err)
          ELSE Steps(c, [reqs[c] EXCEPT !.pc = "write"])
    /\ UNCHANGED <<store, users, last, prev, resolverVars, authVars>>

\* Create's orgTagRepo.Create(tag)
CreateInsert(c) ==
    /\ reqs[c].op = "Create" /\ reqs[c].pc = "write"
    /\ ~Locked(c, reqs[c].tagID)
    /\ LET rq == reqs[c]
           tag == OrganizationTag(rq.tagID, TrimSpace(rq.p.name), rq.p.description, rq.parent,
                                  DefaultActor(rq.p.actor), DefaultActor(rq.p.actor))
           r == RepoCreate(store, tag)
       IN /\ store' = r.db
          /\ Returns(c, r.err)
    /\ UNCHANGED <<users, last, prev, resolverVars, authVars>>

\* Update up to its first repository call, s.FindByID(tagID), and the
\* self-parent check that follows it
UpdateBegin(c, in) ==
    LET tagID == TrimSpace(in[1])
        name == TrimSpace(in[2].name)
        normalizedParent == NormalizeOptionalTagID(in[3])
        found == SvcFindByID(store, tagID)
    IN /\ IF tagID = <<>> \/ name = <<>>
          THEN Starts(c, Done("Update", tagID, normalizedParent, ErrInvalidInput))
          ELSE IF found.err # NoErr
          THEN Starts(c, Done("Update", tagID, normalizedParent, found.err))
          ELSE IF normalizedParent # None /\ normalizedParent[1] = tagID
          THEN Starts(c, Done("Update", tagID, normalizedParent, ErrInvalidInput))
          ELSE Starts(c, Request("Update", IF normalizedParent # None THEN "parent" ELSE "write",
                                 tagID, in[2], normalizedParent, found.tag, 0, NoErr))
       /\ UNCHANGED <<store, users, last, resolverVars, authVars>>

\* Update's FindByID(*normalizedParent)
UpdateCheckParent(c) ==
    /\ reqs[c].op = "Update" /\ reqs[c].pc = "parent"
    /\ LET found == RepoFindByID(store, reqs[c].parent[1])
       IN IF found.err = ErrRecordNotFound THEN Returns(c, ErrOrgTagNotFound)
          ELSE IF found.err # NoErr THEN Returns(c, found.err)
          ELSE Steps(c, [reqs[c] EXCEPT !.pc = "write"])
    /\ UNCHANGED <<store, users, last, prev, resolverVars, authVars>>

\* Update's orgTagRepo.Update(tag), tag being the record fetched at the
\* beginning with the four fields of the request
UpdateWrite(c) ==
    /\ reqs[c].op = "Update" /\ reqs[c].pc = "write"
    /\ ~Locked(c, reqs[c].tagID)
    /\ LET rq == reqs[c]
           tag == [rq.tag[1] EXCEPT !.Name = TrimSpace(rq.p.name),
                                    !.Description = rq.p.description,
                                    !.ParentTag = rq.parent,
                                    !.UpdatedBy = DefaultActor(rq.p.actor)]
           r == RepoUpdate(store, tag)
       IN /\ store' = r.db
          /\ Returns(c, IF r.err = ErrRecordNotFound THEN ErrOrgTagNotFound ELSE r.err)
    /\ UNCHANGED <<users, last, prev, resolverVars, authVars>>

\* rows a DELETE ... WHERE tag_id = tagID removes
RowsAffected(db, tagID) == IF tagID \in DOMAIN db THEN 1 ELSE 0

\* Delete up to the First(&current) of the repository's transaction.  The
\* read opens the transaction's snapshot, n is the child count in it.
DeleteBegin(c, rawID) ==
    LET tagID == TrimSpace(rawID)
    IN /\ IF tagID = <<>>
          THEN Starts(c, Done("Delete", tagID, None, ErrInvalidInput))
          ELSE IF tagID \notin DOMAIN store
          THEN Starts(c, Done("Delete", tagID, None, ErrOrgTagNotFound))
          ELSE Starts(c, Request("Delete", "count", tagID, P1, None, None,
                                 Cardinality(ChildrenOf(store, tagID)), NoErr))
       /\ UNCHANGED <<store, users, last, resolverVars, authVars>>

\* the transaction's Count of the children.  The isolation level of the
\* connection is not set by the program: the count is that of the snapshot
\* (REPEATABLE READ) or that of the rows committed by now (READ COMMITTED).
DeleteCount(c) ==
    /\ reqs[c].op = "Delete" /\ reqs[c].pc = "count"
    /\ \E childCount \in {reqs[c].n, Cardinality(ChildrenOf(store, reqs[c].tagID))} :
          IF childCount > 0 THEN Returns(c, ErrOrgTagHasChildren)
          ELSE Steps(c, [reqs[c] EXCEPT !.pc = "write"])
    /\ UNCHANGED <<store, users, last, prev, resolverVars, authVars>>

\* DeleteCommit taking a DELETE that removed no row for a success
DeleteCommit_NoRowsCheck(c) ==
    /\ reqs[c].op = "Delete" /\ reqs[c].pc = "write"
    /\ ~Locked(c, reqs[c].tagID)
    /\ store' = DeleteRow(store, reqs[c].tagID)
    /\ Returns(c, NoErr)
    /\ UNCHANGED <<users, last, prev, resolverVars, authVars>>

\* the transaction's DELETE and its commit
DeleteCommit(c) ==
    /\ reqs[c].op = "Delete" /\ reqs[c].pc = "write"
    /\ ~Locked(c, reqs[c].tagID)
    /\ IF RowsAffected(store, reqs[c].tagID) = 0
       THEN /\ Returns(c, ErrOrgTagNotFound)
            /\ UNCHANGED store
       ELSE /\ store' = DeleteRow(store, reqs[c].tagID)
            /\ Returns(c, NoErr)
    /\ UNCHANGED <<users, last, prev, resolverVars, authVars>>

\* DeleteAndReparent up to the First(&current) of the repository's
\* transaction; parent keeps current.ParentTag
ReparentBegin(c, rawID) ==
    LET tagID == TrimSpace(rawID)
    IN /\ IF tagID = <<>>
          THEN Starts(c, Done("DeleteAndReparent", tagID, None, ErrInvalidInput))
          ELSE IF tagID \notin DOMAIN store
          THEN Starts(c, Done("DeleteAndReparent", tagID, None, ErrOrgTagNotFound))
          ELSE Starts(c, Request("DeleteAndReparent", "write", tagID, P1,
                                 store[tagID].ParentTag, None, 0, NoErr))
       /\ UNCHANGED <<store, users, last, resolverVars, authVars>>

\* the rows of K with parent_tag set to newParent
ReparentLocked(db, K, newParent) ==
    [x \in DOMAIN db |-> IF x \in K THEN [db[x] EXCEPT !.ParentTag = newParent] ELSE db[x]]

\* the transaction's UPDATE written to the table at once
ReparentUpdate_Autocommit(c) ==
    /\ reqs[c].op = "DeleteAndReparent" /\ reqs[c].pc = "write"
    /\ \A k \in ChildrenOf(store, reqs[c].tagID) : ~Locked(c, k)
    /\ store' = ReparentRows(store, reqs[c].tagID, reqs[c].parent)
    /\ Steps(c, [reqs[c] EXCEPT !.pc = "commit", !.rows = ChildrenOf(store, reqs[c].tagID)])
    /\ UNCHANGED <<users, last, prev, resolverVars, authVars>>

\* the transaction's UPDATE of the children: rows are the rows it changed,
\* locked and seen by the transaction alone until it ends
ReparentUpdate(c) ==
    /\ reqs[c].op = "DeleteAndReparent" /\ reqs[c].pc = "write"
    /\ \A k \in ChildrenOf(store, reqs[c].tagID) : ~Locked(c, k)
    /\ Steps(c, [reqs[c] EXCEPT !.pc = "commit", !.rows = ChildrenOf(store, reqs[c].tagID)])
    /\ UNCHANGED <<store, users, last, prev, resolverVars, authVars>>

\* the transaction's DELETE and its end: the commit writes the UPDATE and
\* the DELETE together; a DELETE that removes no row returns
\* gorm.ErrRecordNotFound and the transaction is rolled back
ReparentCommit(c) ==
    /\ reqs[c].op = "DeleteAndReparent" /\ reqs[c].pc = "commit"
    /\ ~Locked(c, reqs[c].tagID)
    /\ IF RowsAffected(store, reqs[c].tagID) = 0
       THEN /\ Returns(c, ErrOrgTagNotFound)
            /\ UNCHANGED store
       ELSE /\ store' = DeleteRow(ReparentLocked(store, reqs[c].rows, reqs[c].parent),
                                  reqs[c].tagID)
            /\ Returns(c, NoErr)
    /\ UNCHANGED <<users, last, prev, resolverVars, authVars>>

\* the DELETE of c waits for a row another transaction wrote, and that
\* transaction's DELETE waits for a row c wrote: the database ends one of
\* the two with an error, and tx.Transaction rolls it back
ReparentDeadlock(c) ==
    /\ reqs[c].op = "DeleteAndReparent" /\ reqs[c].pc = "commit"
    /\ \E d \in Clients \ {c} :
          /\ reqs[d].op = "DeleteAndReparent" /\ reqs[d].pc = "commit"
          /\ reqs[c].tagID \in reqs[d].rows
          /\ reqs[d].tagID \in reqs[c].rows
    /\ Returns(c, ErrDeadlock)
    /\ UNCHANGED <<store, users, last, prev, resolverVars, authVars>>

Next ==
    \/ \E in \in TagRequests({P1}) : Create(in[1], in[2], in[3])
    \/ \E in \in TagRequests({P1, P2}) : Update(in[1], in[2], in[3])
    \/ \E rawID \in RawIDs : Delete(rawID)
    \/ \E rawID \in RawIDs : DeleteAndReparent(rawID)
    \/ List
    \/ GetTree
    \/ \E rawID \in RawIDs : FindByID(rawID)

Spec == Init /\ [][Next]_vars

\* the users and the resolver, with the directory written by other clients
NextResolver ==
    \/ \E in \in PlainRequests({P1}) : OtherCreate(in[1], in[2], in[3])
    \/ \E in \in PlainRequests({P1}) : OtherUpdate(in[1], in[2], in[3])
    \/ \E rawID \in TagIDs : OtherDelete(rawID)
    \/ \E rawID \in TagIDs : OtherDeleteAndReparent(rawID)
    \/ \E username \in Usernames : Register(username)
    \/ \E in \in AssignRequests : AssignOrgTagsToUser(in[1], in[2])
    \/ \E userID \in UserIDs : ResolveBegin(userID)
    \/ ResolveStep
    \/ ResolveEnd

SpecResolver == Init /\ [][NextResolver]_vars

\* the resolver with tag writes committing during its loop
NextRacing ==
    \/ NextResolver
    \/ \E in \in RacingRequests : RacingCreate(in[1], in[2], in[3])
    \/ \E in \in RacingRequests : RacingUpdate(in[1], in[2], in[3])
    \/ \E rawID \in RacingIDs : RacingDelete(rawID)
    \/ \E rawID \in RacingIDs : RacingDeleteAndReparent(rawID)

SpecRacing == Init /\ [][NextRacing]_vars

\* the operations on a user's seed tags and primary tag, with the tag
\* writes that make and remove the tags they name
NextUsers ==
    \/ \E t \in UserTagIDs : OtherCreate(t, P1, None)
    \/ \E t \in UserTagIDs : OtherDelete(t)
    \/ \E username \in Usernames : Register(username)
    \/ \E in \in UserAssignRequests : AssignOrgTagsToUser(in[1], in[2])
    \/ \E in \in PrimaryOrgRequests : SetUserPrimaryOrg(in[1], in[2])

SpecUsers == Init /\ [][NextUsers]_vars

\* the server with or without a Redis client
InitAuth ==
    /\ store = <<>>
    /\ users = <<>>
    /\ last = Last("none", <<>>, NoErr, None)
    /\ prev = <<>>
    /\ reqs = [c \in Clients |-> Idle]
    /\ rpc = "idle"
    /\ rUser = 0
    /\ rSeeds = <<>>
    /\ rAll = <<>>
    /\ rQueue = <<>>
    /\ rVisited = {}
    /\ rResult = <<>>
    /\ rErr = NoErr
    /\ rReads = 0
    /\ rTrace = <<>>
    /\ now = 0
    /\ rdb \in {None, Some(<<>>)}
    /\ revoked = {}
    /\ served = None

\* logins are not modelled: the tokens are there from the start
NextAuth ==
    \/ Tick
    \/ \E username \in Usernames : Register(username)
    \/ \E token \in TokenStrings : Logout(token)
    \/ \E authHeader \in AuthHeaders : AuthRequest(authHeader)

SpecAuth == InitAuth /\ [][NextAuth]_vars

\* the same with the reads of the directory service
NextReads ==
    \/ NextResolver
    \/ List
    \/ GetTree
    \/ \E rawID \in RawIDs : FindByID(rawID)

SpecReads == Init /\ [][NextReads]_vars

FairSpecResolver == SpecResolver /\ WF_vars(ResolveStep)

\* the directory written by the requests of Clients, step by step
NextConcurrent ==
    \E c \in Clients :
        \/ \E in \in ConcurrentRequests : CreateBegin(c, in)
        \/ CreateCheckParent(c)
        \/ CreateInsert(c)
        \/ \E in \in ConcurrentRequests : UpdateBegin(c, in)
        \/ UpdateCheckParent(c)
        \/ UpdateWrite(c)
        \/ \E rawID \in ConcurrentIDs \cup {Pad(MaxPad)} : DeleteBegin(c, rawID)
        \/ DeleteCount(c)
        \/ DeleteCommit(c)
        \/ \E rawID \in ConcurrentIDs \cup {Pad(MaxPad)} : ReparentBegin(c, rawID)
        \/ ReparentUpdate(c)
        \/ ReparentCommit(c)
        \/ ReparentDeadlock(c)
        \/ FindAllRead(c)

SpecConcurrent == Init /\ [][NextConcurrent]_vars

\* a user row with any OrgTags string, read by the profile handler and by
\* the resolver
InitParse ==
    /\ store = <<>>
    /\ \E raw \in RawOrgTags : users = (1 :> User(1, "alice", raw, <<>>))
    /\ last = Last("none", <<>>, NoErr, None)
    /\ prev = <<>>
    /\ reqs = [c \in Clients |-> Idle]
    /\ rpc = "idle"
    /\ rUser = 0
    /\ rSeeds = <<>>
    /\ rAll = <<>>
    /\ rQueue = <<>>
    /\ rVisited = {}
    /\ rResult = <<>>
    /\ rErr = NoErr
    /\ rReads = 0
    /\ rTrace = <<>>
    /\ now = 0
    /\ rdb = Some(<<>>)
    /\ revoked = {}
    /\ served = None

NextParse ==
    \/ \E userID \in UserIDs : GetProfile(userID)
    \/ \E userID \in UserIDs : ResolveBegin(userID)
    \/ ResolveStep
    \/ ResolveEnd

SpecParse == InitParse /\ [][NextParse]_vars

\* the directory behind its HTTP handlers, with a database that may fail
NextHandler ==
    \/ \E body \in CreateBodies, user \in CtxUsers, fault \in Faults :
          HandlerCreate(body, user, fault)
    \/ \E tagID \in PathIDs, body \in UpdateBodies, user \in CtxUsers, fault \in Faults :
          HandlerUpdate(tagID, body, user, fault)
    \/ \E tagID \in PathIDs, query \in Strategies, fault \in Faults :
          HandlerDelete(tagID, query, fault)
    \/ \E fault \in Faults : HandlerList(fault)
    \/ \E fault \in Faults : HandlerGetTree(fault)

SpecHandler == Init /\ [][NextHandler]_vars


----------------------------------------------------------------------------
(* Properties.  last is the operation that produced the state, prev the    *)
(* store as that operation found it.                                       *)

\* longest blank seed string examined
MaxBlank == 3

Range(q) == {q[i] : i \in 1..Len(q)}

NoDup(q) == \A i, j \in 1..Len(q) : q[i] = q[j] => i = j

\* C1: a protect Delete of a tag that has at least one direct child returns
\* ErrOrgTagHasChildren, and the tag, its children and the rest of the
\* store are as before.
C1_ProtectDeleteRefused ==
    (last.op = "Delete" /\ last.id \in DOMAIN prev /\ ChildrenOf(prev, last.id) # {})
        => (last.err = ErrOrgTagHasChildren /\ store = prev)

C1_Witness ==
    /\ last.op = "Delete"
    /\ last.id \in DOMAIN prev
    /\ ChildrenOf(prev, last.id) \ {last.id} # {}
    /\ last.err = ErrOrgTagHasChildren

\* C2: after a successful DeleteAndReparent of an existing tag T with parent
\* P, T is gone and every other tag that was a direct child of T is in the
\* store with parent P (NULL when T was a root).
C2_ReparentToGrandparent ==
    (last.op = "DeleteAndReparent" /\ last.err = NoErr /\ last.id \in DOMAIN prev)
        => /\ last.id \notin DOMAIN store
           /\ \A c \in ChildrenOf(prev, last.id) \ {last.id} :
                 c \in DOMAIN store /\ store[c].ParentTag = prev[last.id].ParentTag

C2_Witness ==
    /\ last.op = "DeleteAndReparent"
    /\ last.err = NoErr
    /\ last.id \in DOMAIN prev
    /\ prev[last.id].ParentTag # None
    /\ prev[last.id].ParentTag # Some(last.id)
    /\ ChildrenOf(prev, last.id) \ {last.id} # {}

\* C3 as stated: a Create whose trimmed id is already in the store returns
\* ErrOrgTagAlreadyExists and leaves the store as it was.
C3_AsStated ==
    (last.op = "Create" /\ last.id \in DOMAIN prev)
        => (last.err = ErrOrgTagAlreadyExists /\ store = prev)

\* the outcome of Create(in) on db when the trimmed id is already stored
CreateOnExisting(db, in) ==
    LET r == SvcCreate(db, in[1], in[2].name, in[2].description, in[3], in[2].actor)
        selfParent == NormalizeOptionalTagID(in[3]) = Some(TrimSpace(in[1]))
    IN /\ r.db = db
       /\ r.err = IF TrimSpace(in[2].name) = <<>> \/ selfParent
                  THEN ErrInvalidInput ELSE ErrOrgTagAlreadyExists

\* C3 amended: a Create whose trimmed id is already in the store leaves the
\* store as it was; it returns ErrOrgTagAlreadyExists when the name is not
\* blank and the normalized parent is not the id, ErrInvalidInput otherwise.
C3_DuplicateCreateRejected ==
    /\ (last.op = "Create" /\ last.id \in DOMAIN prev)
           => (store = prev /\ last.err \in {ErrOrgTagAlreadyExists, ErrInvalidInput})
    /\ \A in \in TagRequests({P1, P2}) :
           TrimSpace(in[1]) \in DOMAIN store => CreateOnExisting(store, in)

C3_Witness ==
    /\ last.op = "Create"
    /\ last.id \in DOMAIN prev
    /\ last.err = ErrOrgTagAlreadyExists
    /\ prev[last.id].Name # TrimSpace(P1.name)

\* C4: no stored tag is its own parent.
C4_NoSelfParent == \A t \in DOMAIN store : store[t].ParentTag # Some(t)

\* the nodes met walking the forest from ids down the Children lists
RECURSIVE Preorder(_, _, _)
Preorder(nodes, ids, fuel) ==
    IF ids = <<>> \/ fuel = 0 THEN <<>>
    ELSE <<Head(ids)>> \o Preorder(nodes, nodes[Head(ids)].Children, fuel - 1)
                       \o Preorder(nodes, Tail(ids), fuel)

ForestNodes(out) == Preorder(out.nodes, out.tree, Cardinality(DOMAIN out.nodes) + 1)

\* C5: the forest GetTree returns holds every stored tag exactly once.
C5_TreeTotality ==
    last.op = "GetTree"
        => /\ Len(ForestNodes(last.out)) = Cardinality(DOMAIN store)
           /\ \A t \in DOMAIN store :
                 Cardinality({i \in 1..Len(ForestNodes(last.out)) : ForestNodes(last.out)[i] = t}) = 1

\* t's parent is NULL, empty or has no row in db
Rootless(db, t) ==
    \/ db[t].ParentTag = None
    \/ db[t].ParentTag[1] = <<>>
    \/ db[t].ParentTag[1] \notin DOMAIN db

\* C6: GetTree returns a tag as a root when its parent is NULL, empty or
\* absent; otherwise the tag is in its parent's Children and is no root.
C6_OrphanAsRoot ==
    last.op = "GetTree"
        => \A t \in DOMAIN store :
              IF Rootless(store, t)
              THEN t \in Range(last.out.tree)
              ELSE /\ t \in Range(last.out.nodes[store[t].ParentTag[1]].Children)
                   /\ t \notin Range(last.out.tree)

C6_Witness ==
    /\ last.op = "GetTree"
    /\ \E t \in DOMAIN store : store[t].ParentTag # None /\ store[t].ParentTag[1] \notin DOMAIN store
    /\ \E t \in DOMAIN store : ~Rootless(store, t) /\ store[t].ParentTag # Some(t)

\* the seeds S and every tag of db below them
RECURSIVE Descendants(_, _)
Descendants(db, S) ==
    LET S2 == S \cup {t \in DOMAIN db : db[t].ParentTag # None /\ db[t].ParentTag[1] \in S}
    IN IF S2 = S THEN S ELSE Descendants(db, S2)

\* C7: when every seed is stored, the resolver returns, without error, the
\* seeds and all their transitive descendants and nothing else; the result
\* is a function of the stored rows alone.
C7_ResolverClosure ==
    (rpc = "done" /\ rSeeds # <<>> /\ Range(rSeeds) \subseteq DOMAIN store)
        => /\ rErr = NoErr
           /\ {rResult[i].TagID : i \in 1..Len(rResult)} = Descendants(store, Range(rSeeds))
           /\ \A i \in 1..Len(rResult) : rResult[i] = store[rResult[i].TagID]

C7_Witness ==
    /\ rpc = "done"
    /\ rErr = NoErr
    /\ Len(rSeeds) = 1
    /\ Len(rResult) = 3
    /\ \E i, j \in 1..Len(rResult) :
          /\ rResult[i].ParentTag = Some(rSeeds[1])
          /\ rResult[j].ParentTag = Some(rResult[i].TagID)
          /\ rResult[j].TagID # rSeeds[1]

\* C8: when a seed has no row at the time of the read, the resolver returns
\* ErrOrgTagNotFound and no tags.
C8_MissingSeedFails ==
    (rpc = "done" /\ \E i \in 1..Len(rSeeds) : rSeeds[i] \notin DOMAIN store)
        => (rErr = ErrOrgTagNotFound /\ rResult = <<>>)

C8_Witness ==
    /\ rpc = "done"
    /\ rErr = ErrOrgTagNotFound
    /\ Len(rTrace) = 2
    /\ rTrace[1] \in DOMAIN store
    /\ rTrace[2] \notin DOMAIN store

\* db has a cycle of parent links through t that is longer than one hop
OnCycle(db, t) ==
    /\ t \in DOMAIN db
    /\ db[t].ParentTag # None
    /\ db[t].ParentTag # Some(t)
    /\ t \in Descendants(db, ChildrenOf(db, t))

\* C9: the loop of the resolver ends for every store, cyclic ones included,
\* and no id passes the visited check twice.
C9_ResolverTerminates ==
    /\ [](NoDup(rTrace))
    /\ (rpc = "loop") ~> (rpc = "done")

C9_Witness ==
    /\ rpc = "done"
    /\ rErr = NoErr
    /\ \E i \in 1..Len(rTrace) : OnCycle(store, rTrace[i])
    /\ Len(rTrace) = Cardinality(Descendants(store, Range(rSeeds)))

BlankStrings == SeqsUpTo({Space, Comma}, MaxBlank)

\* C10: with a blank or separators-only OrgTags string the seed list is
\* empty, and the resolver then returns an empty result and no error
\* without reading the tag table.
C10_EmptySeedsNoRead ==
    /\ \A raw \in BlankStrings : ParseOrgTagIDs(raw) = <<>>
    /\ (rpc = "done" /\ rUser \in DOMAIN users /\ ParseOrgTagIDs(users[rUser].OrgTags) = <<>>)
           => (rErr = NoErr /\ rResult = <<>> /\ rReads = 0)

C10_Witness ==
    /\ rpc = "done"
    /\ rUser \in DOMAIN users
    /\ users[rUser].OrgTags = <<>>
    /\ DOMAIN store # {}
    /\ rReads = 0

\* the two clients' requests have both returned.  A response is dropped
\* when a later request begins, so the two requests overlapped.
Overlapped(i, j) == i # j /\ reqs[i].pc = "done" /\ reqs[j].pc = "done"

Orphaned(db, t) == db[t].ParentTag # None /\ db[t].ParentTag[1] \notin DOMAIN db

\* C11: when a protect Delete of P overlaps a Create of a child with parent
\* P, they do not both succeed: the store never holds the child with parent
\* P while P is gone.
C11_DeleteAndChildCreate ==
    \A i, j \in Clients :
        (/\ Overlapped(i, j)
         /\ reqs[i].op = "Delete"
         /\ reqs[j].op = "Create"
         /\ reqs[j].parent = Some(reqs[i].tagID)
         /\ reqs[i].err = NoErr
         /\ reqs[j].err = NoErr)
            => ~(reqs[j].tagID \in DOMAIN store /\ Orphaned(store, reqs[j].tagID))

Deletes == {"Delete", "DeleteAndReparent"}

\* two overlapping deletes of the same tag, which is stored without
\* children when the later of the two begins and has no children in the
\* snapshot of either
DeletesOfLeaf(i, j) ==
    /\ Overlapped(i, j)
    /\ reqs[i].op \in Deletes
    /\ reqs[j].op \in Deletes
    /\ reqs[i].tagID = reqs[j].tagID
    /\ reqs[i].tagID \in DOMAIN prev
    /\ ChildrenOf(prev, reqs[i].tagID) = {}
    /\ reqs[i].n = 0
    /\ reqs[j].n = 0

\* C12: of two overlapping deletes, protect or reparent, of the same stored
\* childless tag one returns nil and the other ErrOrgTagNotFound; the tag
\* is gone and every other tag is as it was.
C12_ConcurrentDeletes ==
    \A i, j \in Clients :
        DeletesOfLeaf(i, j)
            => /\ \/ reqs[i].err = NoErr /\ reqs[j].err = ErrOrgTagNotFound
                  \/ reqs[i].err = ErrOrgTagNotFound /\ reqs[j].err = NoErr
               /\ store = DeleteRow(prev, reqs[i].tagID)

C12_Witness ==
    /\ DeletesOfLeaf(1, 2)
    /\ reqs[1].op = "Delete"
    /\ reqs[2].op = "DeleteAndReparent"
    /\ reqs[1].err = ErrOrgTagNotFound
    /\ reqs[2].err = NoErr
    /\ Cardinality(DOMAIN prev) = 2

\* C13: a Create whose insert meets a stored record with its id returns
\* ErrOrgTagAlreadyExists; of two overlapping Creates of an id that is not
\* stored when the later begins, with parents that are found, one returns
\* nil and the other ErrOrgTagAlreadyExists, and the id is stored.
C13_ConcurrentCreates ==
    /\ \A c \in Clients :
           (reqs[c].op = "Create" /\ reqs[c].pc = "done") => reqs[c].err # ErrDuplicatedKey
    /\ \A i, j \in Clients :
           (/\ Overlapped(i, j)
            /\ reqs[i].op = "Create"
            /\ reqs[j].op = "Create"
            /\ reqs[i].tagID = reqs[j].tagID
            /\ reqs[i].tagID \notin DOMAIN prev
            /\ {reqs[i].err, reqs[j].err} \cap {ErrInvalidInput, ErrOrgTagNotFound} = {})
               => /\ {reqs[i].err, reqs[j].err} = {NoErr, ErrOrgTagAlreadyExists}
                  /\ reqs[i].tagID \in DOMAIN store

\* C14: the write of a Create or an Update with parent P commits only while
\* P is stored, whatever the other requests do between its look-up of P and
\* its write.
C14_WriteUnderStoredParent ==
    [][\A c \in Clients :
           (/\ reqs[c].op \in {"Create", "Update"}
            /\ reqs[c].pc = "write"
            /\ reqs[c].parent # None
            /\ reqs'[c].pc = "done"
            /\ reqs'[c].err = NoErr)
               => reqs[c].parent[1] \in DOMAIN store']_vars

\* the request of the last Create or Update
LastParent == NormalizeOptionalTagID(last.in[3])

LastBlank == TrimSpace(last.in[1]) = <<>> \/ TrimSpace(last.in[2].name) = <<>>

C16_AsStated ==
    (last.op = "Update"
     /\ \/ last.id \notin DOMAIN prev
        \/ LastParent # None /\ LastParent[1] \notin DOMAIN prev)
        => (last.err = ErrOrgTagNotFound /\ store = prev)

\* C16 amended: an Update with an id and a name that are not blank returns
\* ErrOrgTagNotFound and leaves the store as it was when the id is not
\* stored and when the parent is given and not stored.
C16_UpdateNotFound ==
    (last.op = "Update" /\ ~LastBlank
     /\ \/ last.id \notin DOMAIN prev
        \/ LastParent # None /\ LastParent[1] \notin DOMAIN prev)
        => (last.err = ErrOrgTagNotFound /\ store = prev)

C16_Witness ==
    /\ last.op = "Update"
    /\ last.id \in DOMAIN prev
    /\ LastParent # None
    /\ LastParent[1] \notin DOMAIN prev
    /\ last.err = ErrOrgTagNotFound
    /\ store = prev

\* C17: a Create or an Update whose id or name is blank returns
\* ErrInvalidInput, has called no repository method, and leaves the store
\* as it was.
C17_BlankRejectedBeforeStore ==
    (last.op \in {"Create", "Update"} /\ LastBlank)
        => (last.err = ErrInvalidInput /\ last.calls = <<>> /\ store = prev)

C17_Witness ==
    /\ last.op = "Update"
    /\ last.id \in DOMAIN prev
    /\ TrimSpace(last.in[2].name) = <<>>
    /\ LastParent # None
    /\ last.err = ErrInvalidInput
    /\ last.calls = <<>>

\* C18: a Create or an Update whose normalized parent is its own trimmed id
\* returns ErrInvalidInput and has called no repository method, whether the
\* id is stored or not.
C18_SelfParentRejectedBeforeStore ==
    (last.op \in {"Create", "Update"} /\ last.id # <<>> /\ LastParent = Some(last.id))
        => (last.err = ErrInvalidInput /\ last.calls = <<>> /\ store = prev)

\* C19 as stated: a Create with a parent that is not stored returns
\* ErrOrgTagNotFound and leaves the store as it was.
C19_AsStated ==
    (last.op = "Create" /\ LastParent # None /\ LastParent[1] \notin DOMAIN prev)
        => (last.err = ErrOrgTagNotFound /\ store = prev)

\* C19 amended: a Create with a parent that is not stored leaves the store
\* as it was; it returns ErrInvalidInput when the id or the name is blank
\* or the parent is the id, ErrOrgTagAlreadyExists when the id is stored,
\* and ErrOrgTagNotFound otherwise.
C19_CreateUnderMissingParent ==
    (last.op = "Create" /\ LastParent # None /\ LastParent[1] \notin DOMAIN prev)
        => /\ store = prev
           /\ last.err = IF LastBlank \/ LastParent = Some(last.id) THEN ErrInvalidInput
                         ELSE IF last.id \in DOMAIN prev THEN ErrOrgTagAlreadyExists
                         ELSE ErrOrgTagNotFound

C19_Witness ==
    /\ last.op = "Create"
    /\ ~LastBlank
    /\ last.id \notin DOMAIN prev
    /\ LastParent # None
    /\ LastParent # Some(last.id)
    /\ LastParent[1] \notin DOMAIN prev
    /\ prev # <<>>
    /\ last.err = ErrOrgTagNotFound
    /\ store = prev

\* C20: the parent of every stored tag is NULL or the id of a stored tag.
C20_NoDanglingParent == \A t \in DOMAIN store : ~Orphaned(store, t)

\* C21: a Delete or a DeleteAndReparent of an id that is not blank and not
\* stored returns ErrOrgTagNotFound; with a blank id it returns
\* ErrInvalidInput and has called no repository method; the store is as it
\* was in both cases.
C21_DeleteOfMissingOrBlank ==
    (last.op \in Deletes /\ last.id \notin DOMAIN prev)
        => /\ store = prev
           /\ last.id # <<>> => last.err = ErrOrgTagNotFound
           /\ last.id = <<>> => (last.err = ErrInvalidInput /\ last.calls = <<>>)

C21_Witness ==
    /\ last.op = "Delete"
    /\ last.id # <<>>
    /\ last.id \notin DOMAIN prev
    /\ prev # <<>>
    /\ last.err = ErrOrgTagNotFound
    /\ last.calls = <<"Delete">>

\* no tag of db is its own parent or lies on a cycle of parent links
Acyclic(db) == \A t \in DOMAIN db : db[t].ParentTag # Some(t) /\ ~OnCycle(db, t)

\* C23: an Update that gives a stored tag one of its own descendants as
\* parent succeeds, and the tag then lies on a cycle of two or more parent
\* links.
C23_UpdateClosesCycle ==
    (/\ last.op = "Update"
     /\ ~LastBlank
     /\ last.id \in DOMAIN prev
     /\ LastParent # None
     /\ LastParent[1] # last.id
     /\ LastParent[1] \in Descendants(prev, ChildrenOf(prev, last.id)))
        => (last.err = NoErr /\ OnCycle(store, last.id))

C23_Witness ==
    /\ last.op = "Update"
    /\ last.err = NoErr
    /\ Acyclic(prev)
    /\ \A t \in DOMAIN prev : ~Orphaned(prev, t)
    /\ OnCycle(store, last.id)
    /\ store[LastParent[1]].ParentTag # Some(last.id)

\* C27: Create checks in this order: blank id or name and self-parent
\* (ErrInvalidInput), id already stored (ErrOrgTagAlreadyExists), parent not
\* stored (ErrOrgTagNotFound).  So a self-parent request on a stored id
\* returns ErrInvalidInput, and a request on a stored id with a parent that
\* is not stored returns ErrOrgTagAlreadyExists.
C27_CreateCheckOrder ==
    last.op = "Create"
        => last.err = IF LastBlank THEN ErrInvalidInput
                      ELSE IF LastParent = Some(last.id) THEN ErrInvalidInput
                      ELSE IF last.id \in DOMAIN prev THEN ErrOrgTagAlreadyExists
                      ELSE IF LastParent # None /\ LastParent[1] \notin DOMAIN prev
                      THEN ErrOrgTagNotFound
                      ELSE NoErr

C27_Witness ==
    /\ last.op = "Create"
    /\ ~LastBlank
    /\ last.id \in DOMAIN prev
    /\ LastParent # None
    /\ LastParent[1] \notin DOMAIN prev
    /\ last.err = ErrOrgTagAlreadyExists

\* the parent a request asks for: NULL when it is absent or blank, else
\* the trimmed value
AskedParent(in) ==
    IF in[3] = None THEN None
    ELSE IF TrimSpace(in[3][1]) = <<>> THEN None
    ELSE Some(TrimSpace(in[3][1]))

\* C28: a successful Create or Update stores NULL for an absent or blank
\* parent and the trimmed value otherwise; the self-parent check and the
\* look-up of the parent use the trimmed value.
C28_ParentNormalized ==
    (last.op \in {"Create", "Update"} /\ ~LastBlank)
        => LET asked == AskedParent(last.in)
               reached == IF last.op = "Create" THEN last.id \notin DOMAIN prev
                          ELSE last.id \in DOMAIN prev
           IN /\ last.err = NoErr => store[last.id].ParentTag = asked
              /\ (reached /\ asked = Some(last.id)) => last.err = ErrInvalidInput
              /\ (reached /\ asked # None /\ asked # Some(last.id))
                    => last.err = IF asked[1] \in DOMAIN prev THEN NoErr ELSE ErrOrgTagNotFound
              /\ (reached /\ asked = None) => last.err = NoErr

C28_Witness ==
    /\ last.op = "Update"
    /\ last.err = NoErr
    /\ last.in[3] # None
    /\ TrimSpace(last.in[3][1]) = <<>>
    /\ last.in[3][1] # <<>>
    /\ prev[last.id].ParentTag # None
    /\ store[last.id].ParentTag = None

\* C29: a successful DeleteAndReparent of T removes T and no other tag and
\* changes nothing but the parent of T's direct children; T's parent, the
\* children of T's children and every tag that is no child of T are as they
\* were; with no children the store is the one a plain delete of T leaves.
C29_ReparentFrame ==
    (last.op = "DeleteAndReparent" /\ last.err = NoErr)
        => LET T == last.id
               kids == ChildrenOf(prev, T) \ {T}
           IN /\ T \in DOMAIN prev
              /\ DOMAIN store = DOMAIN prev \ {T}
              /\ \A t \in DOMAIN store : store[t] = [prev[t] EXCEPT !.ParentTag = store[t].ParentTag]
              /\ \A t \in DOMAIN store \ kids : store[t] = prev[t]
              /\ \A t \in DOMAIN store : prev[T].ParentTag = Some(t) => store[t] = prev[t]
              /\ \A k \in kids : \A g \in ChildrenOf(prev, k) \cap DOMAIN store :
                    store[g].ParentTag = prev[g].ParentTag
              /\ ChildrenOf(prev, T) = {}
                    => store = [t \in DOMAIN prev \ {T} |-> prev[t]]

\* C30: a successful Delete of T removes T and nothing else: T had no
\* children, T is not stored, FindByID(T) returns ErrOrgTagNotFound, and
\* every other tag is as it was.
C30_DeleteFrame ==
    (last.op = "Delete" /\ last.err = NoErr)
        => /\ last.id \in DOMAIN prev
           /\ ChildrenOf(prev, last.id) = {}
           /\ DOMAIN store = DOMAIN prev \ {last.id}
           /\ \A t \in DOMAIN store : store[t] = prev[t]
           /\ SvcFindByID(store, last.id).err = ErrOrgTagNotFound

C30_Witness ==
    /\ last.op = "Delete"
    /\ last.err = NoErr
    /\ prev[last.id].ParentTag # None
    /\ Cardinality(DOMAIN store) = 2
    /\ \E t \in DOMAIN store : store[t].ParentTag # None

\* the ids of the tags a FindAll returned
SeenIDs(sq) == {sq[n].TagID : n \in 1..Len(sq)}

\* what a FindAll returned is no half-done DeleteAndReparent of client j:
\* while the target is there its children point at it, and once the
\* transaction has committed they point at the target's parent
SeenWhole(sq, j) ==
    LET T == reqs[j].tagID
        K == reqs[j].rows
    IN /\ T \in SeenIDs(sq)
            => \A k \in K : \E n \in 1..Len(sq) : sq[n].TagID = k /\ sq[n].ParentTag = Some(T)
       /\ (T \notin SeenIDs(sq) /\ reqs[j].pc = "done" /\ reqs[j].err = NoErr)
            => \A k \in K \ {T} :
                  \E n \in 1..Len(sq) : sq[n].TagID = k /\ sq[n].ParentTag = reqs[j].parent

\* a step of a Delete or DeleteAndReparent request of client c writes the
\* table only when it returns nil, and then the target is gone; when it
\* returns an error the table is as before and the rows its UPDATE had
\* changed point at the target as before
DeleteStepWhole(c) ==
    (reqs[c].op \in Deletes /\ reqs[c].pc \notin {"idle", "done"} /\ reqs'[c] # reqs[c])
        => /\ store' # store
                => (reqs'[c].pc = "done" /\ reqs'[c].err = NoErr
                    /\ reqs[c].tagID \notin DOMAIN store')
           /\ (reqs'[c].pc = "done" /\ reqs'[c].err # NoErr)
                => (store' = store
                    /\ \A k \in reqs[c].rows : store'[k].ParentTag = Some(reqs[c].tagID))

\* C26: a FindAll (the read of List, GetTree and the resolver) that runs
\* while a DeleteAndReparent is under way never returns the children
\* re-pointed with the target still there, nor the target gone with the
\* children still pointing at it; and a delete that returns an error has
\* changed nothing.
C26_AtomicDeletes ==
    /\ [](\A i \in Clients : \A j \in Clients \ {i} :
            (reqs[i].op = "FindAll" /\ reqs[j].op = "DeleteAndReparent")
                => SeenWhole(reqs[i].seen[1], j))
    /\ [][\A c \in Clients : DeleteStepWhole(c)]_vars

C26_Witness ==
    \E i \in Clients : \E j \in Clients \ {i} :
        /\ reqs[i].op = "FindAll"
        /\ reqs[j].op = "DeleteAndReparent"
        /\ reqs[j].pc = "commit"
        /\ reqs[j].rows # {}
        /\ reqs[j].parent # Some(reqs[j].tagID)
        /\ reqs[j].tagID \in SeenIDs(reqs[i].seen[1])
        /\ store = prev

\* the positions of the separators of s, in order, between 0 and Len(s) + 1
Cuts(s) == <<0>> \o SelectSeq([n \in 1..Len(s) |-> n], LAMBDA n : s[n] = Comma) \o <<Len(s) + 1>>

\* the pieces of s between its separators, each without the spaces around it
Pieces(s) ==
    LET cuts == Cuts(s)
        piece(n) == SubSeq(s, cuts[n] + 1, cuts[n + 1] - 1)
        inner(q) == {m \in 1..Len(q) : q[m] # Space}
        lo(q) == CHOOSE m \in inner(q) : \A x \in inner(q) : m <= x
        hi(q) == CHOOSE m \in inner(q) : \A x \in inner(q) : m >= x
    IN [n \in 1..(Len(cuts) - 1) |->
           IF inner(piece(n)) = {} THEN <<>>
           ELSE SubSeq(piece(n), lo(piece(n)), hi(piece(n)))]

\* ids is raw parsed: the pieces that are not empty, each once, in the
\* order in which each first occurs
ParsedFrom(raw, ids) ==
    LET pieces == Pieces(raw)
        first(id) == CHOOSE n \in 1..Len(pieces) :
                        pieces[n] = id /\ \A m \in 1..(n - 1) : pieces[m] # id
    IN /\ Range(ids) = Range(pieces) \ {<<>>}
       /\ NoDup(ids)
       /\ \A i \in 1..Len(ids) : ids[i] # <<>> /\ Head(ids[i]) # Space /\ ids[i][Len(ids[i])] # Space
       /\ \A i, j \in 1..Len(ids) : i < j => first(ids[i]) < first(ids[j])
       /\ (\A n \in 1..Len(raw) : raw[n] = Space) => ids = <<>>

\* C25: the seed list parsed from a user's OrgTags string, by the resolver
\* and by the profile handler alike, holds the trimmed non-empty pieces of
\* the string, each once, in the order of their first occurrence; a blank
\* string gives the empty list.
C25_ParsedSeeds ==
    /\ (rpc # "idle" /\ rUser \in DOMAIN users) => ParsedFrom(users[rUser].OrgTags, rSeeds)
    /\ (last.op = "GetProfile" /\ last.err = NoErr) => ParsedFrom(users[1].OrgTags, last.out[1])

C25_Witness ==
    /\ rpc # "idle"
    /\ rUser \in DOMAIN users
    /\ users[rUser].OrgTags = <<"b", Comma, "a", Comma, "b">>
    /\ rSeeds = << <<"b">>, <<"a">> >>

\* the delete request was refused: 400, no service method called, no
\* repository method called, the store as before
Refused == last.status = 400 /\ last.svc = <<>> /\ last.calls = <<>> /\ store = prev

\* the delete request went to service method m and to no other
ServedBy(m, repoMethod) ==
    /\ last.svc = <<m>>
    /\ \A n \in 1..Len(last.calls) : last.calls[n] = repoMethod

\* C22 as stated: 'protect' or no parameter calls only Delete, 'reparent'
\* calls only DeleteAndReparent, and every other value of the parameter is
\* refused with 400, no service method called and the store unchanged.
C22_AsStated ==
    last.op = "HandlerDelete"
        => LET query == last.in[2]
           IN IF query \in {None, Some(<<"protect">>)} THEN ServedBy("Delete", "Delete")
              ELSE IF query = Some(<<"reparent">>)
              THEN ServedBy("DeleteAndReparent", "DeleteAndReparentChildren")
              ELSE Refused

\* the values the handler takes for 'protect' and for 'reparent': the word
\* in any case, with or without spaces around it
ProtectQueries == {None, Some(<<"protect">>), Some(<<"PROTECT">>)}

ReparentQueries == {Some(<<"reparent">>), Some(<<Space, "Reparent", Space>>)}

\* C22: every delete request calls at most one service method: Delete when
\* the strategy, trimmed and in lower case, is 'protect' or the parameter
\* is absent, DeleteAndReparent when it is 'reparent'; every other value,
\* the empty one included, is refused with 400, no service method called
\* and the store unchanged.
C22_OneStrategy ==
    last.op = "HandlerDelete"
        => LET query == last.in[2]
           IN IF query \in ProtectQueries THEN ServedBy("Delete", "Delete")
              ELSE IF query \in ReparentQueries
              THEN ServedBy("DeleteAndReparent", "DeleteAndReparentChildren")
              ELSE Refused

C22_Witness ==
    /\ last.op = "HandlerDelete"
    /\ last.in[2] = Some(<<Space, "Reparent", Space>>)
    /\ last.status = 200
    /\ last.svc = <<"DeleteAndReparent">>
    /\ ChildrenOf(prev, last.id) # {}
    /\ last.id \notin DOMAIN store

\* the errors of the directory service that have a meaning of their own
BusinessErrors ==
    {ErrInvalidInput, ErrOrgTagNotFound, ErrOrgTagAlreadyExists, ErrOrgTagHasChildren}

\* the request got as far as the repository call that fails
FaultMet ==
    LET user == last.in[2]
        body == last.in[1]
        id == last.id
        asked == AskedParent(<<id, <<>>, body[1].parentTag>>)
        valid == /\ body # None
                 /\ user # None
                 /\ id # <<>>
                 /\ TrimSpace(body[1].name) # <<>>
    IN CASE last.op = "HandlerCreate" ->
              /\ valid /\ body[1].tagId # <<>> /\ asked # Some(id)
              /\ \/ last.fault = 1
                 \/ last.fault = 2 /\ id \notin DOMAIN prev /\ asked # None
                 \/ last.fault = 3 /\ id \notin DOMAIN prev
                                   /\ (asked = None \/ asked[1] \in DOMAIN prev)
         [] last.op = "HandlerUpdate" ->
              /\ valid
              /\ \/ last.fault = 1
                 \/ last.fault = 2 /\ id \in DOMAIN prev /\ asked \notin {None, Some(id)}
                 \/ last.fault = 3 /\ id \in DOMAIN prev /\ asked # Some(id)
                                   /\ (asked = None \/ asked[1] \in DOMAIN prev)
         [] last.op = "HandlerDelete" ->
              last.fault = 1 /\ id # <<>> /\ last.svc # <<>>
         [] last.op \in {"HandlerList", "HandlerGetTree"} -> last.fault = 1
         [] OTHER -> FALSE

C31_ResultNoDup ==
    \A i, j \in 1..Len(rResult) : rResult[i].TagID = rResult[j].TagID => i = j

C31_Witness ==
    /\ rpc = "done"
    /\ rErr = NoErr
    /\ \E i, j \in 1..Len(rSeeds) :
          /\ i < j
          /\ rSeeds[j] \in Descendants(store, ChildrenOf(store, rSeeds[i])) \ {rSeeds[i]}
    /\ Len(rResult) = Cardinality(Descendants(store, Range(rSeeds)))
    /\ Len(rResult) >= 2

\* the calls that only read
ReadOps == {"List", "GetTree", "FindByID", "GetUserEffectiveOrgTags"}

\* C32: a step of List, GetTree, FindByID or the resolver, whatever it
\* returns, leaves the tag table and the users table as they were.
C32_ReadsWriteNothing ==
    [][last'.op \in ReadOps => (store' = store /\ users' = users)]_vars

C32_Witness ==
    /\ last.op = "GetUserEffectiveOrgTags"
    /\ rpc = "done"
    /\ rErr = ErrOrgTagNotFound
    /\ DOMAIN store # {}
    /\ store = prev
    /\ rUser \in DOMAIN users

\* the ids of a list are in strictly ascending order of tag_id
Ascending(ids) == \A i, j \in 1..Len(ids) : i < j => StrLess(ids[i], ids[j])

\* C35: List returns every row of the table in ascending order of id, and the
\* roots and every children list of GetTree are in ascending order of id.
C35_AscendingOrder ==
    /\ (last.op = "List" /\ last.err = NoErr) =>
          /\ Len(last.out) = Cardinality(DOMAIN prev)
          /\ \A t \in DOMAIN prev : \E i \in 1..Len(last.out) : last.out[i] = prev[t]
          /\ Ascending([i \in 1..Len(last.out) |-> last.out[i].TagID])
    /\ last.op = "GetTree" =>
          /\ Ascending(last.out.tree)
          /\ \A n \in DOMAIN last.out.nodes : Ascending(last.out.nodes[n].Children)

C35_Witness ==
    /\ last.op = "GetTree"
    /\ \E n \in DOMAIN last.out.nodes :
          /\ Len(last.out.nodes[n].Children) = 2
          /\ StrLess(last.out.nodes[n].Children[2], n)
    /\ Len(last.out.tree) = 1

\* the ids of the tags a resolver call returns
EffectiveIDs(db, seedIDs) == {t.TagID : t \in Range(EffectiveTags(db, seedIDs).tags)}

\* C34: after DeleteAndReparent(T) on an acyclic table, the resolver gives
\* for every seed set without T the ids it gave before, less T.
C34_ReparentKeepsReach ==
    (last.op = "DeleteAndReparent" /\ last.err = NoErr /\ Acyclic(prev)) =>
        \A S \in SUBSET (DOMAIN prev \ {last.id}) :
            LET seedIDs == SortIDs(S)
            IN /\ EffectiveTags(prev, seedIDs).err = NoErr
               /\ EffectiveTags(store, seedIDs).err = NoErr
               /\ EffectiveIDs(store, seedIDs) = EffectiveIDs(prev, seedIDs) \ {last.id}

C34_Witness ==
    /\ last.op = "DeleteAndReparent"
    /\ last.err = NoErr
    /\ Acyclic(prev)
    /\ \E root, team \in DOMAIN store :
          /\ prev[last.id].ParentTag = Some(root)
          /\ prev[team].ParentTag = Some(last.id)
          /\ prev[root].ParentTag = None
          /\ store[team].ParentTag = Some(root)
          /\ EffectiveIDs(prev, <<root>>) = {root, last.id, team}
          /\ EffectiveIDs(store, <<root>>) = {root, team}

\* the result of a resolver call is the closure of seeds over the table db
ClosureOver(db, seeds) ==
    IF Range(seeds) \subseteq DOMAIN db
    THEN /\ rErr = NoErr
         /\ {rResult[i].TagID : i \in 1..Len(rResult)} = Descendants(db, Range(seeds))
         /\ \A i \in 1..Len(rResult) : rResult[i] = db[rResult[i].TagID]
    ELSE /\ rErr = ErrOrgTagNotFound
         /\ rResult = <<>>

\* C33: a resolver call with seeds reads the tag table once, and with tag
\* writes committing during its loop its result, or its NotFound error, is
\* the closure over the table as it was at that read.
C33_OneSnapshot ==
    /\ rpc = "loop" => (rReads = 1 /\ rAll = RepoFindAll(prev))
    /\ (rpc = "done" /\ rSeeds # <<>>) => (rReads = 1 /\ ClosureOver(prev, rSeeds))

C33_Witness ==
    /\ rpc = "done"
    /\ rSeeds # <<>>
    /\ rErr = NoErr
    /\ store # prev
    /\ Range(rSeeds) \subseteq DOMAIN store
    /\ Descendants(store, Range(rSeeds)) # Descendants(prev, Range(rSeeds))
    /\ ClosureOver(prev, rSeeds)

\* the ids a user holds: the list every reader makes of the OrgTags column
Held(user) == ParseOrgTagIDs(user.OrgTags)

\* C36: the PrimaryOrg of every user is empty or one of the ids of the
\* user's OrgTags.
C36_PrimaryOrgHeld ==
    \A u \in DOMAIN users :
        users[u].PrimaryOrg = <<>> \/ ContainsString(Held(users[u]), users[u].PrimaryOrg)

\* C37: AssignOrgTagsToUser with an id of the normalized list that has no
\* row returns ErrOrgTagNotFound and leaves the user as it was; otherwise
\* the ids the user holds afterwards are the normalized list, all with rows.
C37_AssignWritesExisting ==
    [][\A in \in UserAssignRequests :
          (in[1] \in DOMAIN users /\ AssignOrgTagsToUser(in[1], in[2])) =>
              LET ids == NormalizeOrgTagIDs(in[2])
              IN IF \E i \in 1..Len(ids) : ids[i] \notin DOMAIN store
                 THEN last'.err = ErrOrgTagNotFound /\ users' = users
                 ELSE /\ last'.err = NoErr
                      /\ Held(users'[in[1]]) = ids
                      /\ Range(Held(users'[in[1]])) \subseteq DOMAIN store]_vars

\* the blacklist holds an entry for the token at time t
Listed(token, t) ==
    /\ rdb # None
    /\ <<"token_blacklist:">> \o token \in DOMAIN rdb[1]
    /\ LET e == rdb[1][<<"token_blacklist:">> \o token]
       IN e.expireAt = NoExpiry \/ t < e.expireAt

====
